---- MODULE Spec2Model ----
(***************************************************************************)
(* A model of Project-Jessica's beat-driven core: the action lifecycle     *)
(* (action_system.py), the Action Manager (action_manager.py), the plan    *)
(* executor and heartbeat (jessica_core.py), the affect engine             *)
(* (limbic_system.py), the world model (world_manager.py) and the threads  *)
(* that share the state lock.                                              *)
(*                                                                         *)
(* The agent is one record, psyche; a handler of the source is an operator *)
(* from psyche to psyche, so that a handler which calls other handlers is  *)
(* the composition of their operators.  What a handler reads from outside  *)
(* the program (the oracle's reply, the clock, random draws) is its env    *)
(* argument, and each action draws env from a finite set.                  *)
(*                                                                         *)
(* Python floats are modelled as fixed-point integers: needs in units of   *)
(* 1/NeedScale, affect scalars and drive urgencies in units of 1/Scale.    *)
(***************************************************************************)
EXTENDS Integers, Sequences, FiniteSets, TLC

VARIABLES
    psyche,                   \* the Psyche object: manager, plan, mission, needs, affect
    last_call,                \* the last handler called and what it returned
    grid,                     \* world_data["grid"]: coordinate -> Location or NoLocation
    objects,                  \* world_data["objects"]: the registered object ids
    current_location_coords,  \* world_data["current_location_coords"]
    gen_edges,                \* history: the forward edges location generation created
    threads,                  \* each thread's position in its code
    state_lock,               \* Psyche.state_lock: its holder, or NoThread
    oracle_calls              \* the threads inside model.generate_content

vars == <<psyche, last_call, grid, objects, current_location_coords, gen_edges,
          threads, state_lock, oracle_calls>>


(***************************************************************************)
(* Fixed point                                                             *)
(***************************************************************************)
Scale == 10^5
NeedScale == 10^6

Min(a, b) == IF a < b THEN a ELSE b
Max(a, b) == IF a > b THEN a ELSE b

\* x * c for a coefficient c written in ten-thousandths (0.9473 is 9473)
Mul(x, c) == (x * c) \div 10000

(***************************************************************************)
(* Action lifecycle (action_system.py)                                     *)
(***************************************************************************)
ActionKinds ==
    {"IdleAction", "ThinkAndRespondAction", "SleepAction", "ExploreAction",
     "SearchAction", "ExamineObjectAction", "InteractObjectAction",
     "ReadBookAction", "JournalAction", "PaintAction", "LookOutOfWindowAction",
     "DoWorkAction", "EatAction", "DyeHairAction", "ResearchAndLearnAction"}

\* duration_beats each constructor passes to Action.__init__
Duration(kind) ==
    CASE kind = "IdleAction" -> 1
      [] kind = "ThinkAndRespondAction" -> 1
      [] kind = "SleepAction" -> 8 * 60
      [] kind = "ExploreAction" -> 2
      [] kind = "SearchAction" -> 3 * 2
      [] kind = "ExamineObjectAction" -> 1
      [] kind = "InteractObjectAction" -> 1
      [] kind = "ReadBookAction" -> 5
      [] kind = "JournalAction" -> 3
      [] kind = "PaintAction" -> 6
      [] kind = "LookOutOfWindowAction" -> 2
      [] kind = "DoWorkAction" -> 10
      [] kind = "EatAction" -> 2
      [] kind = "DyeHairAction" -> 4
      [] kind = "ResearchAndLearnAction" -> 5
      [] OTHER -> 1

\* is_interruptible: True in Action.__init__, False in two subclasses
Interruptible(kind) == kind \notin {"ThinkAndRespondAction", "SleepAction"}

\* A freshly constructed action.  plan_step (the action was started as a step
\* of the plan), start_called, finish_called and first_outcome are history:
\* whether start() and finish() were ever called on the instance, and
\* was_successful as the first call of finish() left it.
NewAction(kind) ==
    [kind |-> kind,
     duration |-> Duration(kind),
     beats_elapsed |-> 0,
     is_finished |-> FALSE,
     is_interruptible |-> Interruptible(kind),
     was_successful |-> FALSE,
     start_called |-> FALSE,
     finish_called |-> FALSE,
     first_outcome |-> FALSE,
     plan_step |-> FALSE]

\* An object that is not an Action (None, or what a factory method returned)
NotAnAction == [NewAction("NotAnAction") EXCEPT !.is_interruptible = FALSE]

IsAction(a) == a.kind \in ActionKinds
IsIdle(a) == a.kind = "IdleAction"

StatusOf(b) == IF b THEN "True" ELSE "False"

(***************************************************************************)
(* What the handlers read from outside the program                         *)
(***************************************************************************)
SearchResults == {"continue", "found", "exhausted", "invalid"}

\* the factory keys of ConsciousMind.action_factory that plans are drawn from
StepKeys == {"explore", "interact_with_object", "sleep", "paint", "respond"}

MaxPlanLen == 3

Plans == UNION {[1..n -> StepKeys] : n \in 1..MaxPlanLen}

\* the entries of possible_actions in _consider_autonomous_action, the
\* unread-messages shortcut ("pick_up_phone") and no entry at all
AutoChoices == {"none", "pick_up_phone", "paint", "read_a_book", "eat", "sleep",
                "journal", "explore_home", "initiate_conversation",
                "look_out_window"}

\* What a handler reads from outside the program, as a record:
\* ok:       the fact start() consults (the move succeeded, the object is here)
\* fin_ok:   the fact finish() consults (the oracle replied, the dye is held)
\* factory:  the factory method returned an Action (hands free, item held,
\*           unread messages on the phone)
\* search:   what this beat of a search finds
\* auto:     the entry autonomy selection ranks first
\* sched:    a promise made for today is due
\* spont:    a spontaneous thought fires
\* plan_ok:  the oracle's reply parses as a list of known actions
\* plan:     that list
\* safe:     the current location is the Living Room or the Bedroom
\* rate_limited: the oracle's rate limit is in force
\* locked:   another thread holds the state lock
QuietEnv ==
    [ok |-> TRUE, fin_ok |-> TRUE, factory |-> TRUE, search |-> "continue",
     auto |-> "none", sched |-> FALSE, spont |-> FALSE, plan_ok |-> FALSE, plan |-> <<>>,
     safe |-> TRUE, rate_limited |-> FALSE, locked |-> FALSE]

\* a share of the unit interval, written in ten-thousandths (0.4 is Part(4000))
Part(c) == (Scale \div 10000) * c
NeedPart(c) == (NeedScale \div 10000) * c

(***************************************************************************)
(* The Psyche object as its constructor leaves it.  contact is the class   *)
(* of the time since last_interaction_time: under ten minutes ("recent"),  *)
(* over four hours ("lonely"), or between ("none").  The last fields are   *)
(* history: thoughts, the cognition requests (think calls) issued by the   *)
(* handler running now, by trigger; ops, the calls made on the manager and *)
(* on actions; beat, the heartbeats run; started, the plan steps whose     *)
(* action was started, and start_beat, the beat of the last of them;       *)
(* plan_failures, the plan-failure requests issued so far; planned, the    *)
(* plan as it was adopted; step_failures, the failed plan steps the Action *)
(* Manager has seen.  A mission is the goal string of a plan ("goal") or   *)
(* the find_places record, whose found list and count are mission_found    *)
(* and mission_count; responses counts the messages _respond has queued in *)
(* the handler running now.                                                *)
(***************************************************************************)
NewPsyche ==
    [current_action |-> NewAction("IdleAction"),
     last_action_status |-> "None",
     action_plan |-> <<>>,
     current_mission |-> "None",
     mission_found |-> 0,
     mission_count |-> 0,
     responses |-> 0,
     is_sleeping |-> FALSE,
     energy |-> NeedScale,
     hunger |-> NeedScale,
     dopamine |-> Part(8000),
     cortisol |-> Part(1000),
     oxytocin |-> Part(3000),
     serotonin |-> Part(6000),
     norepinephrine |-> Part(7000),
     understanding |-> Part(8000),
     connection |-> Part(6000),
     creativity |-> Part(4000),
     contact |-> "recent",
     thoughts |-> <<>>,
     ops |-> 0,
     beat |-> 0,
     started |-> <<>>,
     start_beat |-> 0,
     plan_failures |-> 0,
     planned |-> <<>>,
     step_failures |-> 0,
     is_rate_limited |-> FALSE,
     rate_limit_until |-> 0,
     now |-> 0,
     quota_run |-> 0,
     interrupted |-> FALSE]

\* ConsciousMind.think: hands the trigger to a new worker thread
think(p, trigger) == [p EXCEPT !.thoughts = Append(@, trigger)]

\* Action.finish without its guard: every call sets the outcome again
Action_finish_unguarded(p, success) ==
    [p EXCEPT !.current_action.was_successful = success,
              !.current_action.is_finished = TRUE]

\* Action.finish
Action_finish(p, success) ==
    IF p.current_action.is_finished
    THEN p
    ELSE [p EXCEPT !.current_action.was_successful = success,
                   !.current_action.is_finished = TRUE]

\* ConsciousMind._learn_from_book
learn_from_book(p) ==
    [p EXCEPT !.understanding = 0,
              !.dopamine = Min(Scale, @ + Part(3000))]

SleepAction_finish(p, success) ==
    Action_finish(think([p EXCEPT !.is_sleeping = FALSE], "SYSTEM_EVENT"), success)

ReadBookAction_finish(p, success) == Action_finish(learn_from_book(p), TRUE)

JournalAction_finish(p, success) ==
    Action_finish([p EXCEPT !.cortisol = Mul(@, 8000),
                            !.understanding = Mul(@, 7000)], TRUE)

PaintAction_finish(p, success, env) ==
    IF env.fin_ok
    THEN Action_finish([p EXCEPT !.creativity = 0,
                                 !.dopamine = Min(Scale, @ + Part(4000))], TRUE)
    ELSE Action_finish(p, FALSE)

LookOutOfWindowAction_finish(p, success) ==
    Action_finish([p EXCEPT !.understanding = Mul(@, 9000)], TRUE)

DoWorkAction_finish(p, success) ==
    Action_finish([p EXCEPT !.energy = @ - NeedPart(2000),
                            !.creativity = Mul(@, 5000)], TRUE)

\* fin_ok: the dye is still held when finish() runs
DyeHairAction_finish(p, success, env) ==
    IF env.fin_ok THEN Action_finish(p, TRUE) ELSE Action_finish(p, success)

\* fin_ok: the oracle's blueprint parsed and named a new object or action
ResearchAndLearnAction_finish(p, success, env) ==
    IF env.fin_ok
    THEN Action_finish([p EXCEPT !.understanding = Part(1000),
                                 !.dopamine = Min(Scale, @ + Part(5000))], TRUE)
    ELSE Action_finish(p, FALSE)

\* self.finish(success) on the current action: the finish() of its class
KindFinish(p, success, env) ==
    LET k == p.current_action.kind IN
    CASE k = "SleepAction" -> SleepAction_finish(p, success)
      [] k = "ReadBookAction" -> ReadBookAction_finish(p, success)
      [] k = "JournalAction" -> JournalAction_finish(p, success)
      [] k = "PaintAction" -> PaintAction_finish(p, success, env)
      [] k = "LookOutOfWindowAction" -> LookOutOfWindowAction_finish(p, success)
      [] k = "DoWorkAction" -> DoWorkAction_finish(p, success)
      [] k = "DyeHairAction" -> DyeHairAction_finish(p, success, env)
      [] k = "ResearchAndLearnAction" -> ResearchAndLearnAction_finish(p, success, env)
      [] OTHER -> Action_finish(p, success)

\* the history of the instance: the first call of finish() records the
\* outcome it fixed
first_call(called, q) ==
    IF called
    THEN q
    ELSE [q EXCEPT !.current_action.finish_called = TRUE,
                   !.current_action.first_outcome = q.current_action.was_successful]

\* finish(success) on the current action, its history kept
finish(p, success, env) ==
    first_call(p.current_action.finish_called, KindFinish(p, success, env))

\* Action.update
Action_update(p, env) ==
    LET q == [p EXCEPT !.current_action.beats_elapsed = @ + 1] IN
    IF q.current_action.beats_elapsed >= q.current_action.duration
       /\ ~q.current_action.is_finished
    THEN finish(q, FALSE, env)
    ELSE q

SleepAction_update(p, env) ==
    Action_update(IF p.energy >= NeedScale THEN finish(p, TRUE, env) ELSE p, env)

\* SearchAction.update after super().update(): the breadth-first step is
\* env.search
search_step(q, env) ==
    IF q.current_action.is_finished \/ env.search = "continue" THEN q
    ELSE finish(q, env.search = "found", env)

\* SearchAction.update
SearchAction_update(p, env) == search_step(Action_update(p, env), env)

\* the start() of the current action's class
KindStart(p, env) ==
    LET k == p.current_action.kind IN
    CASE k = "ThinkAndRespondAction" -> finish(think(p, "USER_MESSAGE"), TRUE, env)
      [] k = "SleepAction" -> [p EXCEPT !.is_sleeping = TRUE]
      [] k \in {"ExploreAction", "ExamineObjectAction", "InteractObjectAction"} ->
            finish(p, env.ok, env)
      [] k = "EatAction" ->
            finish([p EXCEPT !.hunger = Min(NeedScale, @ + NeedPart(1000)),
                             !.dopamine = Min(Scale, @ + Part(2000))], TRUE, env)
      [] k = "DyeHairAction" -> IF env.ok THEN p ELSE finish(p, FALSE, env)
      [] OTHER -> p

\* self.start() on the current action
start(p, env) == KindStart([p EXCEPT !.current_action.start_called = TRUE], env)

(***************************************************************************)
(* Action Manager (action_manager.py)                                      *)
(***************************************************************************)
is_busy(p) == ~IsIdle(p.current_action) /\ ~p.current_action.is_interruptible

\* start_action that installs whatever object it is given
start_action_unchecked(p, kind, env) ==
    IF kind \in ActionKinds
    THEN start([p EXCEPT !.current_action = NewAction(kind),
                         !.last_action_status = "None",
                         !.ops = @ + 1], env)
    ELSE [p EXCEPT !.current_action = NotAnAction]

\* start_action(new_action), new_action being a fresh instance of class kind
\* or, for any other kind, an object that is not an Action
start_action(p, kind, env) ==
    IF kind \in ActionKinds
    THEN start([p EXCEPT !.current_action = NewAction(kind),
                         !.last_action_status = "None",
                         !.ops = @ + 1], env)
    ELSE [p EXCEPT !.current_action = NewAction("IdleAction")]

\* Action.on_interrupt, which ReadBookAction extends by a log line
on_interrupt(p) == [p EXCEPT !.interrupted = TRUE]

\* interrupt_and_start that leaves an action that is not interruptible alone
interrupt_and_start_if_allowed(p, kind, env) ==
    IF p.current_action.is_interruptible
    THEN start([on_interrupt(p) EXCEPT !.current_action = NewAction(kind),
                                       !.ops = @ + 1], env)
    ELSE [p EXCEPT !.ops = @ + 1]

interrupt_and_start(p, kind, env) ==
    start([(IF p.current_action.is_interruptible THEN on_interrupt(p) ELSE p)
              EXCEPT !.current_action = NewAction(kind), !.ops = @ + 1], env)

(***************************************************************************)
(* Planning and autonomy (jessica_core.py)                                 *)
(***************************************************************************)
\* the template _generate_action_plan uses for a goal that says "go outside"
\* or "explore"
CannedPlan == <<"explore", "interact_with_object", "interact_with_object">>

\* _generate_action_plan(goal); canned: the goal matches the template's pattern
generate_action_plan(p, canned, env) ==
    LET q == [p EXCEPT !.current_mission = "goal"] IN
    IF canned THEN [q EXCEPT !.action_plan = CannedPlan, !.planned = CannedPlan]
    ELSE IF env.plan_ok THEN [q EXCEPT !.action_plan = env.plan, !.planned = env.plan]
    ELSE think([q EXCEPT !.action_plan = <<>>, !.current_mission = "None"],
               "COGNITIVE_FAILURE: Planning Module")

\* the precondition and the desire score (over the threshold 0.5) of an entry
\* of possible_actions, as far as they read the agent's own state
Desired(p, name) ==
    CASE name = "paint" ->
            Mul(p.creativity, 15000) + Mul(Scale - p.cortisol, 5000) > Part(5000)
      [] name = "read_a_book" -> Mul(p.understanding, 12000) > Part(5000)
      [] name = "eat" -> p.hunger < NeedPart(5000)
      [] name = "sleep" -> p.energy < NeedPart(3000)
      [] name = "journal" ->
            (p.cortisol - Part(5000)) + Mul(p.understanding, 5000) > Part(5000)
      [] name = "explore_home" ->
            /\ p.understanding > Part(5000)
            /\ Mul(Mul(p.understanding, 7000), 3000) > Part(5000)
      [] name = "initiate_conversation" -> Mul(p.connection, 13000) > Part(5000)
      [] name = "look_out_window" -> Mul(Scale - p.cortisol, 5000) > Part(5000)
      [] OTHER -> FALSE

\* Psyche._check_for_scheduled_events
check_for_scheduled_events(p, env) ==
    IF is_busy(p) \/ p.action_plan # <<>> \/ ~env.sched THEN p
    ELSE think(p, "PROACTIVE")

\* Psyche._consider_spontaneous_thought
consider_spontaneous_thought(p, env) ==
    IF is_busy(p) \/ p.action_plan # <<>> \/ ~env.spont THEN p
    ELSE think(p, "AUTONOMOUS")

\* _consider_autonomous_action
consider_autonomous_action(p, env) ==
    IF is_busy(p) \/ p.action_plan # <<>> \/ p.current_mission # "None" THEN p
    ELSE IF env.auto = "pick_up_phone"
    THEN LET q == [p EXCEPT !.connection = 0] IN
         IF env.factory THEN start_action(q, "ThinkAndRespondAction", env) ELSE q
    ELSE IF ~Desired(p, env.auto) THEN p
    ELSE CASE env.auto = "paint" -> start_action(p, "PaintAction", env)
           [] env.auto = "look_out_window" ->
                 start_action(p, "LookOutOfWindowAction", env)
           [] env.auto = "read_a_book" ->
                 IF env.factory THEN start_action(p, "ReadBookAction", env) ELSE p
           [] env.auto = "journal" ->
                 IF env.factory THEN start_action(p, "JournalAction", env) ELSE p
           [] env.auto = "eat" ->
                 IF env.factory THEN start_action(p, "EatAction", env)
                 ELSE generate_action_plan(p, FALSE, env)
           [] env.auto \in {"sleep", "explore_home"} ->
                 generate_action_plan(p, FALSE, env)
           [] env.auto = "initiate_conversation" -> think(p, "AUTONOMOUS")
           [] OTHER -> p

\* IdleAction.update without the reset of its own completion
idle_no_reset(r) == r

\* IdleAction.update: an idle action that finished is made ready again
idle_reset(r) ==
    IF r.current_action.is_finished
    THEN [r EXCEPT !.current_action.is_finished = FALSE,
                   !.current_action.beats_elapsed = 0]
    ELSE r

\* IdleAction.update after the autonomy checks.  When autonomy started an
\* action the idle instance is no longer the manager's current action and
\* what it does next is not seen.
idle_tick(q, env) ==
    IF ~IsIdle(q.current_action) THEN q ELSE idle_reset(Action_update(q, env))

\* IdleAction.update
IdleAction_update(p, env) ==
    idle_tick(IF p.action_plan = <<>> /\ p.current_mission = "None"
              THEN consider_autonomous_action(
                       consider_spontaneous_thought(
                           check_for_scheduled_events(p, env), env), env)
              ELSE p, env)

\* self.update() on the current action: the update() of its class
update(p, env) ==
    LET k == p.current_action.kind IN
    CASE k = "IdleAction" -> IdleAction_update(p, env)
      [] k = "SleepAction" -> SleepAction_update(p, env)
      [] k = "SearchAction" -> SearchAction_update(p, env)
      [] OTHER -> Action_update(p, env)

\* IdleAction(self.psyche) after its start(), which does nothing
StartedIdle == [NewAction("IdleAction") EXCEPT !.start_called = TRUE]

\* ActionManager.update without the replacement of a finished action
handle_completion_keep(q) ==
    IF q.current_action.is_finished
    THEN [q EXCEPT !.last_action_status = StatusOf(q.current_action.was_successful)]
    ELSE q

\* ActionManager.update after self.current_action.update()
handle_completion(q) ==
    IF q.current_action.is_finished
    THEN [q EXCEPT !.last_action_status = StatusOf(q.current_action.was_successful),
                   !.current_action = StartedIdle,
                   !.step_failures = IF q.current_action.plan_step
                                        /\ ~q.current_action.was_successful
                                     THEN @ + 1 ELSE @]
    ELSE q

\* ActionManager.update
ActionManager_update(p, env) == handle_completion(update(p, env))

(***************************************************************************)
(* The heartbeat (jessica_core.py, limbic_system.py)                       *)
(***************************************************************************)
\* SomaticProcessor.update
somatic_update(p, env) ==
    IF env.locked THEN p
    ELSE LET decay == IF p.cortisol > Part(7000)
                      THEN (NeedPart(133) * 3) \div 20
                      ELSE NeedPart(133) \div 10
         IN IF ~p.is_sleeping
            THEN [p EXCEPT !.energy = Max(0, @ - decay),
                           !.hunger = Max(0, @ - NeedPart(67) \div 10),
                           !.understanding = Min(Scale, @ + Part(33) \div 10),
                           !.connection = Min(Scale, @ + Part(67) \div 10),
                           !.creativity = Min(Scale, @ + Part(10))]
            ELSE [p EXCEPT !.energy = Min(NeedScale, @ + NeedPart(167)),
                           !.hunger = Max(0, @ - NeedPart(67) \div 20)]

\* Psyche.is_asleep
is_asleep(p, env) == p.is_sleeping \/ env.rate_limited

\* no clamping at all
Clamp_missing(x) == x

\* max(0.0, min(1.0, x)), the last step of LimbicState.update
Clamp(x) == Max(0, Min(Scale, x))

\* LimbicState.update
limbic_update(p, env) ==
    LET energy == p.energy \div (NeedScale \div Scale)
        hunger == p.hunger \div (NeedScale \div Scale)
        overall == (energy + hunger) \div 2
        d1 == Mul(p.dopamine, 9830)
        c1 == Mul(p.cortisol, IF env.safe THEN 9473 ELSE 9724)
        o1 == Mul(p.oxytocin, 9865)
        s1 == Mul(p.serotonin, 9933)
        n1 == Mul(p.norepinephrine, 9899)
        stress_from_needs == Mul((Scale - energy) + (Scale - hunger), 167)
        stress_from_drives ==
            Mul((p.understanding + p.connection + p.creativity + Part(7000)) \div 4, 67)
        stress_from_loneliness ==
            IF p.contact = "lonely" THEN Mul(Part(8000), 50) ELSE 0
        c2 == IF p.creativity < Part(1000) THEN Mul(c1, 9650) ELSE c1
        c3 == c2 + stress_from_needs + stress_from_drives + stress_from_loneliness
                 - (Mul(o1, 267) + Mul(s1, 267))
        o2 == IF p.contact = "recent" THEN o1 + Part(133) ELSE o1
        s2 == IF c3 > Part(7000)
              THEN s1 - Mul(Mul(c3 - Part(7000), 33), 4000) ELSE s1
        s3 == IF overall > Part(8000)
              THEN s2 + Mul(Mul(overall - Part(8000), 67), 6000) ELSE s2
        lack == (Scale - overall) \div 100
        reward_from_needs_met == Mul(Scale - (lack * lack) \div 10, 33)
        reward_from_understanding == Mul(Mul(Scale - p.understanding, 50), 7000)
        reward_from_creativity == Mul(Scale - p.creativity, 33)
        d2 == d1 + reward_from_needs_met + reward_from_understanding
                 + reward_from_creativity
        d3 == IF d2 > Part(9000) THEN Mul(d2, 9500) ELSE d2
        c4 == IF is_asleep(p, env) THEN Mul(c3, 9280) ELSE c3
        s4 == IF is_asleep(p, env) THEN Min(Scale, s3 + Part(167)) ELSE s3
    IN [p EXCEPT !.dopamine = Clamp(d3),
                 !.cortisol = Clamp(c4),
                 !.oxytocin = Clamp(o2),
                 !.serotonin = Clamp(s4),
                 !.norepinephrine = Clamp(n1)]

\* ConsciousMind.action_factory[key](...): the class of the Action it
\* returns, or NotAnAction where the method returns None
factory(key, env) ==
    CASE key = "explore" -> "ExploreAction"
      [] key = "interact_with_object" -> "InteractObjectAction"
      [] key = "sleep" -> "SleepAction"
      [] key = "paint" -> "PaintAction"
      [] OTHER -> "NotAnAction"

\* what calling the factory method does besides: _respond with a text to
\* send sets last_interaction_time
factory_effect(p, key, env) ==
    IF key = "respond" /\ env.factory THEN [p EXCEPT !.contact = "recent"] ELSE p

FailureTrigger == "COGNITIVE_FAILURE: Action Plan Failed"

\* the end of _execute_next_plan_step: "Action plan completed."
plan_completed(r) ==
    IF r.action_plan = <<>> THEN [r EXCEPT !.current_mission = "None"] ELSE r

\* the step popped from the plan: the factory is asked for its action, which
\* is started if it is an Action; otherwise the plan is dropped
start_step(q, step, kind, env) ==
    IF kind \in ActionKinds
    THEN [start_action([q EXCEPT !.started = Append(@, step),
                                 !.start_beat = q.beat], kind, env)
            EXCEPT !.current_action.plan_step = TRUE]
    ELSE [q EXCEPT !.action_plan = <<>>, !.current_mission = "None"]

\* _execute_next_plan_step without its first branch: a failed step does not
\* stop the plan
execute_next_plan_step_no_abort(p, env) ==
    IF p.action_plan # <<>> /\ ~is_busy(p)
    THEN plan_completed(
             start_step(factory_effect([p EXCEPT !.last_action_status = "None",
                                                 !.action_plan = Tail(@)],
                                       Head(p.action_plan), env),
                        Head(p.action_plan), factory(Head(p.action_plan), env), env))
    ELSE p

\* Psyche._execute_next_plan_step
execute_next_plan_step(p, env) ==
    IF p.action_plan # <<>> /\ p.last_action_status = "False"
    THEN think([p EXCEPT !.action_plan = <<>>,
                         !.current_mission = "None",
                         !.last_action_status = "None",
                         !.plan_failures = @ + 1], FailureTrigger)
    ELSE IF p.action_plan # <<>> /\ ~is_busy(p)
    THEN plan_completed(
             start_step(factory_effect([p EXCEPT !.last_action_status = "None",
                                                 !.action_plan = Tail(@)],
                                       Head(p.action_plan), env),
                        Head(p.action_plan), factory(Head(p.action_plan), env), env))
    ELSE p

\* Psyche._handle_mission_completion for the find_places mission
handle_mission_completion(p) ==
    [p EXCEPT !.responses = @ + 1, !.contact = "recent", !.current_mission = "None"]

\* Psyche._execute_mission_step: only a mission that is a record named
\* find_places has a step; a mission that is a goal string has none
execute_mission_step(p, env) ==
    IF p.current_mission = "None" \/ is_busy(p) THEN p
    ELSE IF p.current_mission = "find_places"
    THEN IF p.mission_found >= p.mission_count
         THEN handle_mission_completion(p)
         ELSE think(p, "MISSION_STEP: find_places")
    ELSE p

\* Psyche.live after the updates: the plan, the mission or autonomy
dispatch(c, env) ==
    IF c.action_plan # <<>> THEN execute_next_plan_step(c, env)
    ELSE IF c.current_mission # "None" THEN execute_mission_step(c, env)
    ELSE IF ~is_busy(c)
    THEN consider_spontaneous_thought(
             consider_autonomous_action(
                 check_for_scheduled_events(c, env), env), env)
    ELSE c

\* Psyche.live: the updates of a beat, up to action_manager.update()
beat_updates(p, env) ==
    ActionManager_update(
        limbic_update(somatic_update([p EXCEPT !.beat = @ + 1], env), env), env)

\* one iteration of Psyche.live
Beat(p, env) == dispatch(beat_updates(p, env), env)

(***************************************************************************)
(* The world (world_manager.py; the default world of jessica_core.py)      *)
(***************************************************************************)
Directions == {"north", "south", "east", "west", "up", "down"}

\* the part of the coordinate space the model keeps
Region == {<<x, y, 0>> : x \in -1..1, y \in -1..0}

Nowhere == <<>>

Loc(name, type, objs, conns) ==
    [name |-> name, type |-> type, objects |-> objs,
     connections |-> [d \in Directions |-> IF d \in DOMAIN conns THEN conns[d] ELSE Nowhere]]

\* what get_location_at returns where the grid has no entry
NoLocation == Loc("None", "None", {}, <<>>)

\* _get_default_world_state: the grid
DefaultGrid ==
    [c \in Region |->
        CASE c = <<0, 0, 0>> ->
                Loc("Living Room", "indoor",
                    {"window", "luminous_succulent", "computer", "phone", "bookshelf", "easel"},
                    [south |-> <<0, -1, 0>>, east |-> <<1, 0, 0>>, west |-> <<-1, 0, 0>>])
          [] c = <<0, -1, 0>> ->
                Loc("Bedroom", "indoor", {"bed"}, [north |-> <<0, 0, 0>>])
          [] c = <<1, 0, 0>> ->
                Loc("Apartment Hallway", "indoor", {"main_door", "coat_rack"},
                    [west |-> <<0, 0, 0>>])
          [] c = <<-1, 0, 0>> ->
                Loc("Kitchen", "indoor", {"refrigerator", "stove"}, [east |-> <<0, 0, 0>>])
          [] OTHER -> NoLocation]

\* _get_default_world_state: the object registry's keys
DefaultObjects ==
    {"window", "luminous_succulent", "computer", "bookshelf", "bed", "phone",
     "main_door", "coat_rack", "windbreaker", "umbrella", "refrigerator", "stove",
     "apple", "eggs", "easel", "blank_canvas"}

get_location_at(g, c) == IF c \in DOMAIN g THEN g[c] ELSE NoLocation

HasEdge(loc, d) == d \in Directions /\ loc.connections[d] # Nowhere

\* new_coords of _discover_and_generate_location
Step(c, d) ==
    CASE d = "north" -> <<c[1], c[2] + 1, c[3]>>
      [] d = "south" -> <<c[1], c[2] - 1, c[3]>>
      [] d = "east" -> <<c[1] + 1, c[2], c[3]>>
      [] d = "west" -> <<c[1] - 1, c[2], c[3]>>
      [] d = "up" -> <<c[1], c[2], c[3] + 1>>
      [] d = "down" -> <<c[1], c[2], c[3] - 1>>
      [] OTHER -> Nowhere

opposite_map(d) ==
    CASE d = "north" -> "south"
      [] d = "south" -> "north"
      [] d = "east" -> "west"
      [] d = "west" -> "east"
      [] d = "up" -> "down"
      [] OTHER -> "up"

\* The oracle's reply to the genesis prompt, by what the parsing code asks
\* of it: text (the reply is not empty), braces (it holds a {...} span),
\* json (the span parses), name and description (the object has the key);
\* type is "None" where the object has no "type" key.
Reply(text, braces, json, name, description, called, type, objs) ==
    [text |-> text, braces |-> braces, json |-> json, name |-> name,
     description |-> description, called |-> called, type |-> type, objects |-> objs]

Replies ==
    {Reply(FALSE, FALSE, FALSE, FALSE, FALSE, "None", "None", {}),
     Reply(TRUE, FALSE, FALSE, FALSE, FALSE, "None", "None", {}),
     Reply(TRUE, TRUE, FALSE, FALSE, FALSE, "None", "None", {}),
     Reply(TRUE, TRUE, TRUE, FALSE, TRUE, "None", "outdoor", {"park_bench"}),
     Reply(TRUE, TRUE, TRUE, TRUE, FALSE, "Alley", "outdoor", {"park_bench"}),
     Reply(TRUE, TRUE, TRUE, TRUE, TRUE, "Quiet Street", "None", {"park_bench", "umbrella"}),
     Reply(TRUE, TRUE, TRUE, TRUE, TRUE, "Stairwell", "indoor", {})}

\* the test a reply passes to become new_loc_json
Accepted(r) == r.text /\ r.braces /\ r.json /\ r.name /\ r.description

\* the two attempts of the retry loop: the first accepted reply, if any
new_loc_json(r1, r2) == IF Accepted(r1) THEN r1 ELSE r2

\* location generation that links the source before it has a descriptor
discover_and_generate_location_eager(w, source_coords, direction_moved, r1, r2) ==
    LET source_location == get_location_at(w.grid, source_coords)
        new_coords == Step(source_coords, direction_moved)
        j == new_loc_json(r1, r2)
        linked == [w EXCEPT !.grid[source_coords].connections[direction_moved] = new_coords]
    IN IF source_location = NoLocation \/ direction_moved \notin Directions
       THEN [ok |-> FALSE, w |-> w]
       ELSE IF ~Accepted(j) THEN [ok |-> FALSE, w |-> linked]
       ELSE [ok |-> TRUE,
             w |-> [linked EXCEPT
                      !.objects = @ \cup j.objects,
                      !.grid[new_coords] =
                          Loc(j.called, IF j.type = "None" THEN "outdoor" ELSE j.type,
                              j.objects,
                              [d \in {opposite_map(direction_moved)} |-> source_coords]),
                      !.gen_edges = @ \cup {[src |-> source_coords,
                                             dir |-> direction_moved,
                                             dst |-> new_coords,
                                             n |-> Cardinality(@) + 1]}]]

\* WorldManager._discover_and_generate_location; w is the world, gen_edges
\* the history of the edges generation made: source, direction, target and
\* the number of the generation
discover_and_generate_location(w, source_coords, direction_moved, r1, r2) ==
    LET source_location == get_location_at(w.grid, source_coords)
        new_coords == Step(source_coords, direction_moved)
        j == new_loc_json(r1, r2)
        new_location_data ==
            Loc(j.called, IF j.type = "None" THEN "outdoor" ELSE j.type, j.objects,
                [d \in {opposite_map(direction_moved)} |-> source_coords])
    IN IF source_location = NoLocation \/ direction_moved \notin Directions
          \/ ~Accepted(j)
       THEN [ok |-> FALSE, w |-> w]
       ELSE [ok |-> TRUE,
             w |-> [w EXCEPT
                      !.objects = @ \cup j.objects,
                      !.grid = [[@ EXCEPT ![source_coords].connections[direction_moved]
                                              = new_coords]
                                   EXCEPT ![new_coords] = new_location_data],
                      !.gen_edges = @ \cup {[src |-> source_coords,
                                             dir |-> direction_moved,
                                             dst |-> new_coords,
                                             n |-> Cardinality(@) + 1]}]]

\* move that asks for a location to be generated whether or not the edge is
\* there
move_generating(w, direction, r1, r2) ==
    LET current_loc_data == get_location_at(w.grid, w.current_location_coords) IN
    IF current_loc_data = NoLocation THEN [ok |-> FALSE, w |-> w]
    ELSE LET g == discover_and_generate_location(
                      w, w.current_location_coords, direction, r1, r2)
         IN IF ~g.ok THEN [ok |-> FALSE, w |-> g.w]
            ELSE [ok |-> TRUE,
                  w |-> [g.w EXCEPT !.current_location_coords =
                            g.w.grid[w.current_location_coords].connections[direction]]]

\* WorldManager.move
move(w, direction, r1, r2) ==
    LET current_loc_data == get_location_at(w.grid, w.current_location_coords) IN
    IF current_loc_data = NoLocation THEN [ok |-> FALSE, w |-> w]
    ELSE LET g == IF HasEdge(current_loc_data, direction)
                  THEN [ok |-> TRUE, w |-> w]
                  ELSE discover_and_generate_location(
                           w, w.current_location_coords, direction, r1, r2)
         IN IF ~g.ok THEN [ok |-> FALSE, w |-> g.w]
            ELSE [ok |-> TRUE,
                  w |-> [g.w EXCEPT !.current_location_coords =
                            g.w.grid[w.current_location_coords].connections[direction]]]

(***************************************************************************)
(* State shared by the specifications below: each one moves its own part   *)
(* and starts the rest as the constructor leaves it.                       *)
(***************************************************************************)
NoThread == <<"none", 0>>

\* a call of a handler: its argument, what it found (the kind of the current
\* action, or whether the edge existed), what the oracle answered if the
\* handler asked it, and what the call returned
Call(op, arg, before, oracle, result) ==
    [op |-> op, arg |-> arg, before |-> before, oracle |-> oracle, result |-> result]

NoCall == Call("none", "none", "none", "none", "none")

\* a handler starts with no cognition request of its own issued yet and no
\* on_interrupt() of its own called
Fresh(p) == [p EXCEPT !.thoughts = <<>>, !.interrupted = FALSE, !.responses = 0]

(***************************************************************************)
(* SpecAM: the Action Manager driven through its three entry points and    *)
(* through finish() on the current action, in any order.                   *)
(***************************************************************************)
MaxOps == 3

\* the oracle's reply to a planning prompt: no usable list, or one of plans
PlanReplies(plans) ==
    {[plan_ok |-> FALSE, plan |-> <<>>]}
    \cup {[plan_ok |-> TRUE, plan |-> pl] : pl \in plans}

\* the lists the oracle proposes here: the empty list is a list of known
\* actions too
AMPlans == {<<>>, <<"sleep">>}

\* the entries of autonomy selection whose outcome reads env.factory, and
\* those that may ask the oracle for a plan
FactoryChoices == {"pick_up_phone", "read_a_book", "journal", "eat"}
PlanChoices == {"eat", "sleep", "explore_home"}

\* the outside facts an update of the current action can read, each fact
\* varied only where the update reads it
UpdateEnvs(p) ==
    IF IsIdle(p.current_action)
    THEN UNION {{[QuietEnv EXCEPT !.auto = a, !.sched = c, !.spont = s,
                                  !.factory = f,
                                  !.plan_ok = r.plan_ok, !.plan = r.plan] :
                    c \in BOOLEAN, s \in BOOLEAN,
                    f \in IF a \in FactoryChoices THEN BOOLEAN ELSE {TRUE},
                    r \in IF a \in PlanChoices THEN PlanReplies(AMPlans)
                          ELSE PlanReplies({})} :
                a \in {"none", "pick_up_phone"}
                      \cup {d \in AutoChoices : Desired(p, d)}}
    ELSE IF p.current_action.kind = "SearchAction"
    THEN {[QuietEnv EXCEPT !.search = s] : s \in SearchResults}
    ELSE {[QuietEnv EXCEPT !.fin_ok = f] : f \in BOOLEAN}

\* the kinds whose start() reads env.ok
OkKinds == {"ExploreAction", "ExamineObjectAction", "InteractObjectAction",
            "DyeHairAction"}

StartEnvs(kind) ==
    {[QuietEnv EXCEPT !.ok = ok] : ok \in {b \in BOOLEAN : b \/ kind \in OkKinds}}

\* the parts of the state the Action Manager's handlers do not touch
RestAM == <<grid, objects, current_location_coords, gen_edges,
            threads, state_lock, oracle_calls>>

AMStartAction ==
    \E kind \in ActionKinds \cup {"NotAnAction"} : \E env \in StartEnvs(kind) :
        /\ psyche.ops < MaxOps
        /\ psyche' = start_action(Fresh(psyche), kind, env)
        /\ last_call' = Call("start_action", kind, psyche.current_action.kind, "none", "none")
        /\ UNCHANGED RestAM

AMInterruptAndStart ==
    \E kind \in ActionKinds : \E env \in StartEnvs(kind) :
        /\ psyche.ops < MaxOps
        /\ psyche' = interrupt_and_start(Fresh(psyche), kind, env)
        /\ last_call' = Call("interrupt_and_start", kind, psyche.current_action.kind, "none", "none")
        /\ UNCHANGED RestAM

\* update(); last_call.result is the manager's current action as its step
\* left it
AMUpdate ==
    \E env \in UpdateEnvs(psyche) : \E u \in {update(Fresh(psyche), env)} :
        \E q \in {handle_completion(u)} :
            /\ q.ops <= MaxOps
            /\ psyche' = q
            /\ last_call' = Call("update", "none", psyche.current_action.kind, "none",
                                 u.current_action)
            /\ UNCHANGED RestAM

\* finish(success) called on the current action
AMFinish ==
    \E success \in BOOLEAN, fin_ok \in BOOLEAN :
        /\ psyche.ops < MaxOps
        /\ psyche' = [finish(Fresh(psyche), success, [QuietEnv EXCEPT !.fin_ok = fin_ok])
                        EXCEPT !.ops = @ + 1]
        /\ last_call' = Call("finish", StatusOf(success), psyche.current_action.kind, "none",
                             StatusOf(psyche.current_action.is_finished))
        /\ UNCHANGED RestAM

WorldInit ==
    /\ grid = DefaultGrid
    /\ objects = DefaultObjects
    /\ current_location_coords = <<0, 0, 0>>
    /\ gen_edges = {}

RestInit ==
    /\ WorldInit
    /\ threads = <<>>
    /\ state_lock = NoThread
    /\ oracle_calls = {}

InitAM ==
    /\ psyche = NewPsyche
    /\ last_call = NoCall
    /\ RestInit

NextAM == AMStartAction \/ AMInterruptAndStart \/ AMUpdate \/ AMFinish

SpecAM == InitAM /\ [][NextAM]_vars

\* C1: after any sequence of start_action, interrupt_and_start and update
\* calls, start_action with an object that is not an Action among them, the
\* manager's current action is an Action instance and never absent.
C1_CurrentIsAction == IsAction(psyche.current_action)

\* an invalid object was handed to start_action while a sleep was current
C1_Witness ==
    /\ last_call.op = "start_action"
    /\ last_call.arg = "NotAnAction"
    /\ last_call.before = "SleepAction"
    /\ IsIdle(psyche.current_action)

\* C2 as stated: for an action of any kind, once finish() was called the
\* action stays Finished and its outcome is the one the first call fixed.
C2_OutcomeSetOnce ==
    psyche.current_action.finish_called =>
        /\ psyche.current_action.is_finished
        /\ psyche.current_action.was_successful = psyche.current_action.first_outcome

\* C2, amended: the same for an action of any kind but the idle filler, which
\* resets itself after it finishes.
C2_OutcomeSetOnceNotIdle ==
    ~IsIdle(psyche.current_action) => C2_OutcomeSetOnce

\* finish() was called on an action already finished by the opposite outcome
C2_Witness ==
    /\ last_call.op = "finish"
    /\ last_call.result = "True"
    /\ ~IsIdle(psyche.current_action)
    /\ last_call.arg # StatusOf(psyche.current_action.first_outcome)

\* an update of the Action Manager has just run, on an idle filler whose
\* step started another action
UpdateStep == last_call'.op = "update"
IdleStartedAnAction ==
    IsIdle(psyche.current_action) /\ ~IsIdle(last_call'.result)

\* the action a is the action b stepped once
SteppedOnce(a, b) ==
    /\ b.kind = a.kind
    /\ b.beats_elapsed = IF IsIdle(a) THEN 0 ELSE a.beats_elapsed + 1

\* what update() leaves behind, stepped being the action it stepped
UpdateOutcome(stepped) ==
    /\ SteppedOnce(psyche.current_action, stepped)
    /\ IF stepped.is_finished
       THEN /\ psyche'.last_action_status = StatusOf(stepped.was_successful)
            /\ psyche'.current_action = StartedIdle
       ELSE /\ psyche'.current_action = stepped
            /\ psyche'.last_action_status = psyche.last_action_status

C16_InterruptAndStartPreempts ==
    [][last_call'.op = "interrupt_and_start" =>
            /\ psyche'.current_action.kind = last_call'.arg
            /\ psyche'.current_action.beats_elapsed = 0
            /\ psyche'.current_action.start_called
            /\ psyche'.interrupted = psyche.current_action.is_interruptible
            /\ psyche'.last_action_status = psyche.last_action_status]_vars

\* a reply action preempted a sleep, which is not interruptible, while a
\* failure was on record
C16_Witness ==
    /\ last_call.op = "interrupt_and_start"
    /\ last_call.before = "SleepAction"
    /\ psyche.current_action.kind = "ThinkAndRespondAction"
    /\ psyche.current_action.start_called
    /\ ~psyche.interrupted
    /\ psyche.last_action_status = "False"

\* the kinds that take more than one beat
TimedKinds == {k \in ActionKinds : Duration(k) > 1}

\* the update that has just run brought the elapsed beats of a timed action,
\* on which finish() was never called, to its duration
TimedOut ==
    /\ UpdateStep
    /\ psyche.current_action.kind \in TimedKinds
    /\ ~psyche.current_action.finish_called
    /\ psyche.current_action.beats_elapsed + 1 = psyche.current_action.duration

\* C17: for every timed action kind, when an update brings elapsed to the
\* action's duration and finish() was not called before, the action becomes
\* Finished with outcome failure and the Action Manager records failure as
\* last_action_status.
C17_TimeoutIsFailure ==
    [][TimedOut =>
            /\ last_call'.result.is_finished
            /\ ~last_call'.result.was_successful
            /\ psyche'.last_action_status = "False"]_vars

\* finish() has just been called on an instance on which it had been called
\* before
LaterFinish == last_call'.op = "finish" /\ psyche.current_action.finish_called

\* C18: for every action kind a second or later finish() call on the same
\* instance is a no-op: needs, drive urgencies and affect scalars stay as
\* they were and no cognition request is issued.
C18_LaterFinishIsNoOp ==
    [][LaterFinish =>
            [psyche' EXCEPT !.ops = psyche.ops,
                            !.current_action = psyche.current_action] = Fresh(psyche)]_vars

\* C19: the idle filler never terminates on its own: after every update of
\* an idle filler it is running with its elapsed beats back at 0, and the
\* Action Manager neither records an outcome from it nor replaces it.
C19_IdleNeverTerminates ==
    [][(UpdateStep /\ IsIdle(psyche.current_action) /\ IsIdle(last_call'.result)) =>
            /\ ~last_call'.result.is_finished
            /\ last_call'.result.beats_elapsed = 0
            /\ psyche'.current_action = last_call'.result
            /\ psyche'.last_action_status = psyche.last_action_status]_vars

\* an idle filler was updated while the success of an earlier action was on
\* record: it ran to its duration, finished, reset itself and stayed current
C19_Witness ==
    /\ last_call.op = "update"
    /\ last_call.before = "IdleAction"
    /\ IsIdle(psyche.current_action)
    /\ psyche.current_action.finish_called
    /\ ~psyche.current_action.is_finished
    /\ psyche.current_action.beats_elapsed = 0
    /\ psyche.last_action_status = "True"

(***************************************************************************)
(* SpecWorld: the agent moves about the default world, in any direction    *)
(* and with any reply of the oracle when a location has to be generated.   *)
(***************************************************************************)
MaxGen == 2

World ==
    [grid |-> grid, objects |-> objects,
     current_location_coords |-> current_location_coords, gen_edges |-> gen_edges]

\* what the oracle was asked and answered during a move
OracleSaid(w, direction, r1, r2) ==
    IF HasEdge(get_location_at(w.grid, w.current_location_coords), direction)
       \/ direction \notin Directions
    THEN "none"
    ELSE IF Accepted(new_loc_json(r1, r2)) THEN "valid" ELSE "invalid"

\* the replies a move can get: none is asked for where the edge exists or the
\* direction is unknown, and no second one after an accepted first
ReplyPairs(w, direction) ==
    {rr \in Replies \X Replies :
        /\ OracleSaid(w, direction, rr[1], rr[2]) = "none" => rr[1] = rr[2]
        /\ (OracleSaid(w, direction, rr[1], rr[2]) = "none" \/ Accepted(rr[1]))
              => ~rr[2].text}

WMove ==
    \E direction \in Directions \cup {"sideways"} :
    \E rr \in ReplyPairs(World, direction) :
    \E m \in {move(World, direction, rr[1], rr[2])} :
        /\ Cardinality(m.w.gen_edges) <= MaxGen
        /\ m.w.current_location_coords \in Region
        /\ grid' = m.w.grid
        /\ objects' = m.w.objects
        /\ current_location_coords' = m.w.current_location_coords
        /\ gen_edges' = m.w.gen_edges
        /\ last_call' = Call("move", direction,
                             IF HasEdge(grid[current_location_coords], direction)
                             THEN "edge" ELSE "no_edge",
                             OracleSaid(World, direction, rr[1], rr[2]),
                             StatusOf(m.ok))
        /\ UNCHANGED <<psyche, threads, state_lock, oracle_calls>>

InitWorld ==
    /\ psyche = NewPsyche
    /\ last_call = NoCall
    /\ RestInit

NextWorld == WMove

SpecWorld == InitWorld /\ [][NextWorld]_vars

\* the edges generation made that the grid still holds
GeneratedEdges ==
    {e \in gen_edges : get_location_at(grid, e.src).connections[e.dir] = e.dst}

\* C4: in every reachable state, every edge A -d-> B created by generation
\* leads to a location B that exists and holds the reverse edge
\* opposite(d) -> A.
C4_GeneratedEdgesTwoWay ==
    \A e \in GeneratedEdges :
        /\ get_location_at(grid, e.dst) # NoLocation
        /\ get_location_at(grid, e.dst).connections[opposite_map(e.dir)] = e.src

\* C5: a move that needs generation and gets no valid descriptor from the
\* oracle on either attempt returns failure and leaves the grid, the object
\* registry and the agent's coordinate as they were.
C5_FailedGenerationChangesNothing ==
    [][(/\ last_call'.op = "move"
        /\ last_call'.before = "no_edge"
        /\ last_call'.oracle = "invalid")
       => (/\ last_call'.result = "False"
           /\ UNCHANGED <<grid, objects, current_location_coords>>)]_vars

\* a move out of a generated location failed for want of a descriptor
C5_Witness ==
    /\ last_call.op = "move"
    /\ last_call.before = "no_edge"
    /\ last_call.oracle = "invalid"
    /\ last_call.result = "False"
    /\ get_location_at(grid, current_location_coords).name \in {"Quiet Street", "Stairwell"}

\* C37: location generation never replaces or removes an existing grid
\* entry: a coordinate that holds a location keeps that location's name, its
\* objects and every connection it has, in every step.
C37_GenerationKeepsExistingEntries ==
    [][\A c \in DOMAIN grid :
           grid[c] # NoLocation =>
               /\ grid'[c].name = grid[c].name
               /\ grid'[c].objects = grid[c].objects
               /\ \A d \in Directions :
                      HasEdge(grid[c], d) =>
                          grid'[c].connections[d] = grid[c].connections[d]]_vars

\* C27: move(direction) from a location that already has an edge for that
\* direction sets the agent's coordinate to that edge's target and returns
\* success, without invoking location generation and without modifying the
\* grid; generation is invoked only when the edge is absent.
C27_MoveAlongEdgeGeneratesNothing ==
    [][/\ (last_call'.op = "move" /\ last_call'.before = "edge")
           => /\ last_call'.result = "True"
              /\ current_location_coords' =
                     grid[current_location_coords].connections[last_call'.arg]
              /\ last_call'.oracle = "none"
              /\ UNCHANGED <<grid, objects, gen_edges>>
       /\ (last_call'.op = "move" /\ (gen_edges' # gen_edges \/ grid' # grid))
           => last_call'.before = "no_edge"]_vars

\* the agent has moved back along an edge that generation made
C27_Witness ==
    /\ last_call.op = "move"
    /\ last_call.before = "edge"
    /\ last_call.result = "True"
    /\ \E e \in gen_edges : e.src = current_location_coords

(***************************************************************************)
(* SpecAffect: the heartbeat runs, beat after beat, while actions with a   *)
(* side effect on the affect scalars are started from outside it, and the  *)
(* time since the last interaction grows.  The needs are those the saved   *)
(* state held; the agent is in the Living Room or in the Hallway.          *)
(***************************************************************************)
MaxBeats == 6
MaxAffOps == 2

AffKinds == {"JournalAction", "PaintAction", "EatAction", "ReadBookAction",
             "ResearchAndLearnAction", "SleepAction"}

\* is_safe of LimbicState.update
IsSafe == get_location_at(grid, current_location_coords).name \in {"Living Room", "Bedroom"}

RestAffect == <<grid, objects, current_location_coords, gen_edges,
                threads, state_lock, oracle_calls>>

AffBeat ==
    \E fin_ok \in BOOLEAN :
        /\ psyche.beat < MaxBeats
        /\ psyche' = Beat(Fresh(psyche), [QuietEnv EXCEPT !.fin_ok = fin_ok, !.safe = IsSafe])
        /\ last_call' = Call("beat", "none", psyche.current_action.kind, "none", "none")
        /\ UNCHANGED RestAffect

AffStartAction ==
    \E kind \in AffKinds :
        /\ psyche.ops < MaxAffOps
        /\ psyche' = start_action(Fresh(psyche), kind, QuietEnv)
        /\ last_call' = Call("start_action", kind, psyche.current_action.kind, "none", "none")
        /\ UNCHANGED RestAffect

\* ten minutes, then four hours, pass without an interaction
AffTimePasses ==
    /\ psyche.contact # "lonely"
    /\ psyche' = [psyche EXCEPT !.contact = IF @ = "recent" THEN "none" ELSE "lonely"]
    /\ last_call' = Call("clock", "none", "none", "none", "none")
    /\ UNCHANGED RestAffect

InitAffect ==
    /\ \E n \in {NeedScale, NeedPart(500)} :
           psyche = [NewPsyche EXCEPT !.energy = n, !.hunger = n]
    /\ last_call = NoCall
    /\ grid = DefaultGrid
    /\ objects = DefaultObjects
    /\ current_location_coords \in {<<0, 0, 0>>, <<1, 0, 0>>}
    /\ gen_edges = {}
    /\ threads = <<>>
    /\ state_lock = NoThread
    /\ oracle_calls = {}

NextAffect == AffBeat \/ AffStartAction \/ AffTimePasses

SpecAffect == InitAffect /\ [][NextAffect]_vars

InUnit(x) == 0 <= x /\ x <= Scale

\* C3: after any sequence of affect-engine updates interleaved with the side
\* effects of actions (journaling, painting, eating, reading, research), each
\* of the five affect scalars lies in [0, 1].
C3_AffectInUnitInterval ==
    /\ InUnit(psyche.dopamine)
    /\ InUnit(psyche.cortisol)
    /\ InUnit(psyche.oxytocin)
    /\ InUnit(psyche.serotonin)
    /\ InUnit(psyche.norepinephrine)

\* both ends are met: updates have brought cortisol down to 0 and an action's
\* reward has brought dopamine up to 1
C3_Witness ==
    /\ psyche.beat > 0
    /\ psyche.cortisol = 0
    /\ psyche.dopamine = Scale
    /\ last_call.op = "start_action"

(***************************************************************************)
(* SpecPlan: a goal is set once, the planner adopts the list of steps the  *)
(* oracle proposes (or its template), and the heartbeat executes it.  The  *)
(* outside is quiet: no user message, no autonomous choice; a move or an   *)
(* interaction succeeds or fails, and so does the oracle call of an action *)
(* that finishes.                                                          *)
(***************************************************************************)
RestPlan == <<grid, objects, current_location_coords, gen_edges,
              threads, state_lock, oracle_calls>>

\* _process_deep_thought: if new_goal and not self.psyche.action_plan
PlanSetGoal ==
    \E canned \in BOOLEAN : \E r \in PlanReplies(IF canned THEN {} ELSE Plans) :
        /\ psyche.planned = <<>>
        /\ psyche.action_plan = <<>>
        /\ psyche' = generate_action_plan(
                         Fresh(psyche), canned,
                         [QuietEnv EXCEPT !.plan_ok = r.plan_ok, !.plan = r.plan])
        /\ last_call' = Call("set_goal", "none", psyche.current_action.kind,
                             StatusOf(r.plan_ok), "none")
        /\ UNCHANGED RestPlan

PlanBeat ==
    \E ok \in BOOLEAN, fin_ok \in BOOLEAN :
        /\ psyche.beat < MaxBeats
        /\ psyche' = Beat(Fresh(psyche), [QuietEnv EXCEPT !.ok = ok, !.fin_ok = fin_ok])
        /\ last_call' = Call("beat", "none", psyche.current_action.kind, "none", "none")
        /\ UNCHANGED RestPlan

InitPlan ==
    /\ psyche = NewPsyche
    /\ last_call = NoCall
    /\ RestInit

NextPlan == PlanSetGoal \/ PlanBeat

SpecPlan == InitPlan /\ [][NextPlan]_vars

\* the second step of a 3-step plan is the current action and has finished
\* with failure
Step2Failed ==
    /\ Len(psyche.planned) = 3
    /\ Len(psyche.started) = 2
    /\ psyche.current_action.plan_step
    /\ psyche.current_action.is_finished
    /\ ~psyche.current_action.was_successful

\* C6: for a 3-step plan whose second step's action finishes with failure,
\* the failure is detected on the beat after that step was started: the
\* remaining step is discarded without being started, the mission is cleared,
\* and exactly one failure-framed cognition request is issued.
C6_Step2FailureAbortsNextBeat ==
    /\ [][Step2Failed =>
            /\ psyche'.beat = psyche.start_beat + 1
            /\ psyche.action_plan # <<>> /\ psyche'.action_plan = <<>>
            /\ psyche'.started = psyche.started
            /\ psyche'.current_mission = "None"
            /\ psyche'.thoughts = <<FailureTrigger>>
            /\ psyche'.plan_failures = 1]_vars
    /\ [](psyche.plan_failures <= 1)

C6_Witness ==
    /\ Len(psyche.planned) = 3
    /\ Len(psyche.started) = 2
    /\ psyche.beat = psyche.start_beat + 1
    /\ psyche.action_plan = <<>>
    /\ psyche.current_mission = "None"
    /\ psyche.thoughts = <<FailureTrigger>>
    /\ psyche.plan_failures = 1

\* C7: whenever an action started as a plan step finishes with failure, at
\* any position in the plan including the last step, the plan is aborted and
\* exactly one failure-framed cognition request is issued: after every beat,
\* the failed plan steps the Action Manager has seen and the plan-failure
\* requests issued are as many.
C7_EveryStepFailureEscalated == psyche.step_failures = psyche.plan_failures

(***************************************************************************)
(* SpecExec: the beat of Psyche.live in its two parts, the updates and the *)
(* executor, with the stimulus thread and the consultation workers running *)
(* beside it: live() holds no lock, so perceive_user_event and a worker's  *)
(* set_goal can run between the two parts.  threads.live is the part the   *)
(* heartbeat thread runs next.                                             *)
(***************************************************************************)
MaxExecBeats == 4
MaxExecOps == 3

\* the plans the oracle proposes here
ExecPlans == {<<>>, <<"paint">>, <<"explore", "paint">>, <<"sleep", "paint">>}

\* the missions the codex can hold at load_state: none, or find_places with
\* its progress
CodexMissions ==
    {[name |-> "None", found |-> 0, count |-> 0],
     [name |-> "find_places", found |-> 0, count |-> 1],
     [name |-> "find_places", found |-> 1, count |-> 1],
     [name |-> "find_places", found |-> 2, count |-> 1]}

RestExec == <<grid, objects, current_location_coords, gen_edges,
              state_lock, oracle_calls>>

\* somatic.update() ... action_manager.update()
ExecUpdate ==
    \E fin_ok \in BOOLEAN :
        /\ threads.live = "update"
        /\ psyche.beat < MaxExecBeats
        /\ psyche' = beat_updates(Fresh(psyche), [QuietEnv EXCEPT !.fin_ok = fin_ok])
        /\ threads' = [threads EXCEPT !.live = "dispatch"]
        /\ last_call' = Call("update", "none", psyche.current_action.kind, "none", "none")
        /\ UNCHANGED RestExec

\* the executor: the plan, the mission or autonomy
ExecDispatch ==
    \E ok \in BOOLEAN :
        /\ threads.live = "dispatch"
        /\ psyche' = dispatch(Fresh(psyche), [QuietEnv EXCEPT !.ok = ok])
        /\ threads' = [threads EXCEPT !.live = "update"]
        /\ last_call' = Call("dispatch", "none", psyche.current_action.kind, "none",
                             StatusOf(is_busy(psyche)))
        /\ UNCHANGED RestExec

\* perceive_user_event with the phone at hand, on the stimulus thread
ExecPerceive ==
    /\ psyche.ops < MaxExecOps
    /\ psyche' = interrupt_and_start(Fresh(psyche), "ThinkAndRespondAction", QuietEnv)
    /\ last_call' = Call("interrupt_and_start", "ThinkAndRespondAction",
                         psyche.current_action.kind, "none", "none")
    /\ UNCHANGED <<threads, RestExec>>

\* _process_deep_thought on a worker: if new_goal and not self.psyche.action_plan
ExecSetGoal ==
    \E r \in PlanReplies(ExecPlans) :
        /\ psyche.planned = <<>>
        /\ psyche.action_plan = <<>>
        /\ psyche' = generate_action_plan(
                         Fresh(psyche), FALSE,
                         [QuietEnv EXCEPT !.plan_ok = r.plan_ok, !.plan = r.plan])
        /\ last_call' = Call("set_goal", "none", psyche.current_action.kind,
                             StatusOf(r.plan_ok), "none")
        /\ UNCHANGED <<threads, RestExec>>

InitExec ==
    /\ \E m \in CodexMissions :
           psyche = [NewPsyche EXCEPT !.current_mission = m.name,
                                      !.mission_found = m.found,
                                      !.mission_count = m.count]
    /\ last_call = NoCall
    /\ WorldInit
    /\ threads = [live |-> "update"]
    /\ state_lock = NoThread
    /\ oracle_calls = {}

NextExec == ExecUpdate \/ ExecDispatch \/ ExecPerceive \/ ExecSetGoal

SpecExec == InitExec /\ [][NextExec]_vars

\* C20: in a beat in which the Action Manager is busy the executor takes no
\* decision: it aborts no plan, pops no plan step, issues no cognition
\* request and starts no action, so it leaves the agent as it found it.
C20_BusyExecutorDecidesNothing ==
    [][(last_call'.op = "dispatch" /\ is_busy(psyche)) => psyche' = Fresh(psyche)]_vars

\* the executor runs with no plan, a mission set and the manager not busy
MissionBeat ==
    /\ last_call'.op = "dispatch"
    /\ psyche.action_plan = <<>>
    /\ psyche.current_mission # "None"
    /\ ~is_busy(psyche)

\* the mission was completed: one response, mission cleared, no request
MissionCompleted ==
    /\ psyche'.responses = 1
    /\ psyche'.current_mission = "None"
    /\ psyche'.thoughts = <<>>

\* one cognition request was issued and the mission is as it was
MissionStepRequested ==
    /\ Len(psyche'.thoughts) = 1
    /\ psyche'.responses = 0
    /\ psyche'.current_mission = psyche.current_mission
    /\ psyche'.mission_found = psyche.mission_found
    /\ psyche'.mission_count = psyche.mission_count

\* C21: in a beat with no active plan, a mission set and the Action Manager
\* not busy, the mission is completed (one response, mission cleared) if its
\* progress meets its target, and otherwise exactly one cognition request is
\* issued and the mission is left unchanged; for every mission that can be
\* set, one created from a goal string included.
C21_MissionBeatCompletesOrAsks ==
    [][MissionBeat =>
          /\ MissionCompleted \/ MissionStepRequested
          /\ psyche.current_mission = "find_places" =>
                 (MissionCompleted <=> psyche.mission_found >= psyche.mission_count)]_vars

(***************************************************************************)
(* SpecConc: the threads of the program and the oracle.  The heartbeat     *)
(* thread (Psyche.live) and the stimulus thread (file_input_thread) issue  *)
(* cognition requests; think() starts one worker thread per request, which *)
(* runs _process_deep_thought.  threads holds where each thread is,        *)
(* state_lock the thread holding Psyche.state_lock, oracle_calls the       *)
(* threads inside model.generate_content.                                  *)
(***************************************************************************)
MaxWorkers == 2

Heartbeat == <<"heartbeat", 0>>
Worker(i) == <<"worker", i>>
WorkerIds == 1..MaxWorkers

\* the parts of the state no thread step of this specification touches
RestConc == <<psyche, grid, objects, current_location_coords, gen_edges>>

\* the oracle calls the heartbeat thread makes on its own, by the handler
\* that makes them, and those followed by save_state()
HbSites == {"PaintAction.finish", "_generate_action_plan",
            "_discover_and_generate_location", "ResearchAndLearnAction.finish",
            "_learn_from_book"}
SavingSites == {"_discover_and_generate_location", "ResearchAndLearnAction.finish",
                "_learn_from_book"}

\* threading.Thread(target=self._process_deep_thought, ...).start(): the
\* thread of the next request
spawn(t) ==
    [t EXCEPT !.workers[CHOOSE i \in WorkerIds :
                            /\ t.workers[i] = "unborn"
                            /\ \A j \in WorkerIds : t.workers[j] = "unborn" => i <= j]
                  = "wait_lock"]

CanSpawn == \E i \in WorkerIds : threads.workers[i] = "unborn"

\* the heartbeat issues a cognition request (autonomy, a failed plan, waking)
HbThink ==
    /\ threads.heartbeat.pc = "idle"
    /\ CanSpawn
    /\ threads' = spawn(threads)
    /\ last_call' = Call("think", "heartbeat", "none", "none", "none")
    /\ UNCHANGED <<state_lock, oracle_calls, RestConc>>

\* SomaticState.update and WorldManager.update at the top of a beat: both
\* return at once when the lock is held
HbMaintenance ==
    /\ threads.heartbeat.pc = "idle"
    /\ last_call' = Call("maintenance", "heartbeat", "none", "none",
                         IF state_lock = NoThread THEN "ran" ELSE "skipped")
    /\ UNCHANGED <<threads, state_lock, oracle_calls, RestConc>>

\* a handler run by the beat calls _safe_generate_content
HbCallOracle ==
    \E site \in HbSites :
        /\ threads.heartbeat.pc = "idle"
        /\ threads' = [threads EXCEPT !.heartbeat = [pc |-> "oracle", site |-> site]]
        /\ oracle_calls' = oracle_calls \cup {Heartbeat}
        /\ last_call' = Call("generate_content", "heartbeat", site, "none", "none")
        /\ UNCHANGED <<state_lock, RestConc>>

\* the call returns; the handler goes on to save_state() or ends
HbOracleReturns ==
    \E save \in BOOLEAN :
        /\ threads.heartbeat.pc = "oracle"
        /\ save => threads.heartbeat.site \in SavingSites
        /\ ~save => threads.heartbeat.site # "_learn_from_book"
        /\ threads' = [threads EXCEPT !.heartbeat.pc = IF save THEN "wait_lock" ELSE "idle"]
        /\ oracle_calls' = oracle_calls \ {Heartbeat}
        /\ last_call' = Call("generate_content", "heartbeat", threads.heartbeat.site,
                             "replied", StatusOf(save))
        /\ UNCHANGED <<state_lock, RestConc>>

\* save_state: with self.state_lock
HbSaveAcquires ==
    /\ threads.heartbeat.pc = "wait_lock"
    /\ state_lock = NoThread
    /\ state_lock' = Heartbeat
    /\ threads' = [threads EXCEPT !.heartbeat.pc = "saving"]
    /\ last_call' = Call("save_state", "heartbeat", threads.heartbeat.site, "none", "acquired")
    /\ UNCHANGED <<oracle_calls, RestConc>>

HbSaveDone ==
    /\ threads.heartbeat.pc = "saving"
    /\ state_lock' = NoThread
    /\ threads' = [threads EXCEPT !.heartbeat.pc = "idle"]
    /\ last_call' = Call("save_state", "heartbeat", threads.heartbeat.site, "none", "released")
    /\ UNCHANGED <<oracle_calls, RestConc>>

\* the body of a beat: limbic.update and action_manager.update assign affect
\* and action state; neither looks at the lock
HbBeatWrites ==
    /\ threads.heartbeat.pc = "idle"
    /\ threads' = [threads EXCEPT !.heartbeat = [pc |-> "writing", site |-> "live"]]
    /\ last_call' = Call("live", "heartbeat", "none", "none", "writing")
    /\ UNCHANGED <<state_lock, oracle_calls, RestConc>>

HbBeatWritten ==
    /\ threads.heartbeat.pc = "writing"
    /\ threads' = [threads EXCEPT !.heartbeat.pc = "idle"]
    /\ last_call' = Call("live", "heartbeat", "none", "none", "written")
    /\ UNCHANGED <<state_lock, oracle_calls, RestConc>>

\* perceive_user_event on the stimulus thread: it records the messages on the
\* phone object and the time of the interaction
StimWrites ==
    /\ threads.stimulus = "idle"
    /\ threads' = [threads EXCEPT !.stimulus = "writing"]
    /\ last_call' = Call("perceive_user_event", "stimulus", "none", "none", "writing")
    /\ UNCHANGED <<state_lock, oracle_calls, RestConc>>

\* perceive_user_event with the phone at hand: the message is read at once
\* (ThinkAndRespondAction.start) and a cognition request is issued
StimPerceive ==
    /\ threads.stimulus = "writing"
    /\ CanSpawn
    /\ threads' = [spawn(threads) EXCEPT !.stimulus = "idle"]
    /\ last_call' = Call("think", "stimulus", "none", "none", "none")
    /\ UNCHANGED <<state_lock, oracle_calls, RestConc>>

\* perceive_user_event without the phone: a chime is narrated
StimChime ==
    /\ threads.stimulus = "writing"
    /\ threads' = [threads EXCEPT !.stimulus = "idle"]
    /\ last_call' = Call("perceive_user_event", "stimulus", "none", "none", "chime")
    /\ UNCHANGED <<state_lock, oracle_calls, RestConc>>

\* _process_deep_thought: "with self.psyche.state_lock" is entered and the
\* cognitive prompt is sent to the oracle
WorkerAcquires ==
    \E i \in WorkerIds :
        /\ threads.workers[i] = "wait_lock"
        /\ state_lock = NoThread
        /\ state_lock' = Worker(i)
        /\ threads' = [threads EXCEPT !.workers[i] = "consult"]
        /\ oracle_calls' = oracle_calls \cup {Worker(i)}
        /\ last_call' = Call("_process_deep_thought", "worker", "none", "none", "acquired")
        /\ UNCHANGED RestConc

\* what a worker does after an oracle call returned: it is done and leaves
\* the with block, or it goes on, still inside it, to the oracle call of
\* plan generation (set_goal) or of location generation (an explore action
\* started by the reply)
proceed(t, i, next) == [t EXCEPT !.workers[i] = next]

WorkerReply ==
    \E i \in WorkerIds : \E next \in {"done", "planning", "generating"} :
        /\ threads.workers[i] = "consult"
        /\ threads' = proceed(threads, i, next)
        /\ oracle_calls' = IF next = "done" THEN oracle_calls \ {Worker(i)} ELSE oracle_calls
        /\ state_lock' = IF next = "done" THEN NoThread ELSE state_lock
        /\ last_call' = Call("_process_deep_thought", "worker", "consult", "replied", next)
        /\ UNCHANGED RestConc

\* _generate_action_plan called by the worker returns
WorkerPlanReturns ==
    \E i \in WorkerIds : \E next \in {"done", "generating"} :
        /\ threads.workers[i] = "planning"
        /\ threads' = proceed(threads, i, next)
        /\ oracle_calls' = IF next = "done" THEN oracle_calls \ {Worker(i)} ELSE oracle_calls
        /\ state_lock' = IF next = "done" THEN NoThread ELSE state_lock
        /\ last_call' = Call("_generate_action_plan", "worker", "planning", "replied", next)
        /\ UNCHANGED RestConc

\* _discover_and_generate_location called by the worker (start_action of an
\* ExploreAction, move): without a valid descriptor the worker is done; with
\* one it calls save_state(), which waits for the lock the worker holds
WorkerGenerationReturns ==
    \E i \in WorkerIds : \E valid \in BOOLEAN :
        /\ threads.workers[i] = "generating"
        /\ threads' = proceed(threads, i, IF valid THEN "self_wait" ELSE "done")
        /\ oracle_calls' = oracle_calls \ {Worker(i)}
        /\ state_lock' = IF valid THEN state_lock ELSE NoThread
        /\ last_call' = Call("_discover_and_generate_location", "worker", "generating",
                             IF valid THEN "valid" ELSE "invalid", "none")
        /\ UNCHANGED RestConc

InitConc ==
    /\ psyche = NewPsyche
    /\ last_call = NoCall
    /\ WorldInit
    /\ threads = [heartbeat |-> [pc |-> "idle", site |-> "none"],
                  stimulus |-> "idle",
                  workers |-> [i \in WorkerIds |-> "unborn"]]
    /\ state_lock = NoThread
    /\ oracle_calls = {}

NextConc ==
    \/ HbThink
    \/ HbMaintenance
    \/ HbCallOracle
    \/ HbOracleReturns
    \/ HbSaveAcquires
    \/ HbSaveDone
    \/ HbBeatWrites
    \/ HbBeatWritten
    \/ StimWrites
    \/ StimPerceive
    \/ StimChime
    \/ WorkerAcquires
    \/ WorkerReply
    \/ WorkerPlanReturns
    \/ WorkerGenerationReturns

SpecConc == InitConc /\ [][NextConc]_vars

\* C8: at any time at most one oracle consultation is in flight system-wide,
\* counting those of consultation workers, of the heartbeat thread and of the
\* stimulus thread.
C8_OneConsultationInFlight == Cardinality(oracle_calls) <= 1

\* C9: a cognition request that arrives while another consultation is in
\* flight is dropped: no request waits in line for the lock (to be executed
\* later).
C9_NoRequestWaitsInLine ==
    \A i \in WorkerIds : threads.workers[i] = "wait_lock" => state_lock = NoThread

\* C10: the heartbeat thread never waits for an oracle call to return, nor
\* for the state lock while a consultation holds it.
C10_HeartbeatNeverWaits ==
    /\ threads.heartbeat.pc # "oracle"
    /\ threads.heartbeat.pc = "wait_lock" => state_lock = NoThread

\* the thread running file_input_thread
Stimulus == <<"stimulus", 0>>

\* C11: every write to agent, world or affect state happens while the writing
\* thread holds the state lock: a thread that is assigning state is the
\* holder of state_lock, so the heartbeat and the stimulus thread never
\* assign at the same time.
C11_WritersHoldTheLock ==
    /\ threads.heartbeat.pc = "writing" => state_lock = Heartbeat
    /\ threads.stimulus = "writing" => state_lock = Stimulus

\* C31: no consultation worker ever waits for the non-reentrant state lock
\* while itself holding it, so every worker that acquired the lock can still
\* release it (the explore action a reply starts, whose generation saves
\* state, included).
C31_NoWorkerWaitsOnItsOwnLock ==
    \A i \in WorkerIds :
        ~(threads.workers[i] = "self_wait" /\ state_lock = Worker(i))

(***************************************************************************)
(* SpecDorm: the oracle's quota and the dormancy window of jessica_core.py. *)
(* psyche.now is time.time() in seconds since the start, psyche.quota_run  *)
(* the number of quota errors the last oracle calls returned in a row.     *)
(***************************************************************************)
MaxClock == 130
MaxDormOps == 3

\* time.time() + 60
RateLimitWindow == 60

\* the second disjunct of Psyche.is_asleep
dormant(p) == p.is_rate_limited /\ p.now < p.rate_limit_until

\* what model.generate_content does: a text, an empty response, an exception
\* that says "rate limit", any other exception
OracleOutcomes == {"reply", "empty", "quota_error", "other_error"}

\* ConsciousMind._safe_generate_content
safe_generate_content(p, outcome) ==
    IF outcome = "quota_error"
    THEN [p EXCEPT !.is_rate_limited = TRUE,
                   !.rate_limit_until = p.now + RateLimitWindow,
                   !.quota_run = @ + 1]
    ELSE [p EXCEPT !.quota_run = 0]

\* the action keys a reply names here (null: none)
DormKeys == {"null", "sleep", "paint"}

\* ConsciousMind._process_deep_thought after the oracle call: without a text
\* it returns, with one it starts the action the reply names
dispatch_reply(q, outcome, key) ==
    IF outcome = "reply" /\ key # "null"
    THEN start_action(q, factory(key, QuietEnv), QuietEnv)
    ELSE q

process_deep_thought(p, outcome, key) ==
    dispatch_reply(safe_generate_content(p, outcome), outcome, key)

RestDorm == <<grid, objects, current_location_coords, gen_edges,
              threads, state_lock, oracle_calls>>

\* think(trigger, ...): the request is handed to a worker, which consults the
\* oracle
DormThink ==
    \E outcome \in OracleOutcomes : \E key \in DormKeys :
        /\ psyche.ops < MaxDormOps
        /\ outcome # "reply" => key = "null"
        /\ psyche' = [process_deep_thought(psyche, outcome, key)
                        EXCEPT !.ops = psyche.ops + 1]
        /\ last_call' = Call("think", key, StatusOf(dormant(psyche)), "called", outcome)
        /\ UNCHANGED RestDorm

\* time passes: a second, or all but a second of the window
DormTimePasses ==
    \E d \in {1, RateLimitWindow - 1} :
        /\ psyche.now + d <= MaxClock
        /\ psyche' = [psyche EXCEPT !.now = @ + d]
        /\ last_call' = Call("time", "none", StatusOf(dormant(psyche)), "none", "none")
        /\ UNCHANGED RestDorm

InitDorm ==
    /\ psyche = NewPsyche
    /\ last_call = NoCall
    /\ RestInit

NextDorm == DormThink \/ DormTimePasses

SpecDorm == InitDorm /\ [][NextDorm]_vars

\* C12: the agent enters dormancy only at the second of two consecutive
\* quota-exceeded oracle errors: a single quota error, not preceded by
\* another, does not place it in dormancy.
C12_DormancyAfterTwoQuotaErrors ==
    [][(~dormant(psyche) /\ dormant(psyche')) => psyche'.quota_run >= 2]_vars

\* C13: while the dormancy window is open a cognition request is a no-op: no
\* oracle call is issued for it and the agent's plan, action and other state
\* stay as they were.
C13_DormantRequestsAreNoOps ==
    [][(dormant(psyche) /\ last_call'.op = "think") =>
            /\ last_call'.oracle = "none"
            /\ [psyche' EXCEPT !.ops = psyche.ops] = psyche]_vars

(***************************************************************************)
(* SpecChat: the quota dormancy of chatbot.py (LivingMind).  Here psyche   *)
(* is the LivingMind object: thinking_lock is the thread that holds        *)
(* LivingMind.thinking_lock, energy is needs['energy'] in hundredths, now  *)
(* is time.time() in seconds since the start, quota_hit records that an    *)
(* oracle call has raised "429".  threads holds where the thread of        *)
(* LivingMind.live and the thread of handle_user_input's process_thought   *)
(* are.                                                                    *)
(***************************************************************************)
MaxChatClock == 160

\* time.sleep(20), time.time() + 65
BeatSeconds == 20
ForcedSleepWindow == 65

ChatThreads == {"live", "input"}

NewLivingMind(energy) ==
    [is_rate_limited |-> FALSE,
     rate_limit_until |-> 0,
     energy |-> energy,
     now |-> 0,
     thinking_lock |-> "free",
     quota_hit |-> FALSE]

\* LivingMind.is_asleep
chat_is_asleep(m) == m.is_rate_limited \/ m.energy < 10

\* the with blocks on thinking_lock, by the place that enters them: what the
\* block assigns once the lock was acquired
with_thinking_lock(m, site) ==
    CASE site = "_enter_forced_sleep" ->
            [m EXCEPT !.is_rate_limited = TRUE,
                      !.rate_limit_until = m.now + ForcedSleepWindow,
                      !.energy = 0]
      [] site = "recover" -> [m EXCEPT !.is_rate_limited = FALSE, !.energy = 30]
      [] site = "needs" -> [m EXCEPT !.energy = Max(0, @ - 1)]
      [] site = "fall_asleep" -> [m EXCEPT !.energy = 0]
      [] site = "dream" -> [m EXCEPT !.energy = 100]
      [] OTHER -> m

\* what one beat of live() decides after time.sleep(20): the with block it
\* goes to, or none
beat_site(m) ==
    IF m.is_rate_limited
    THEN IF m.now > m.rate_limit_until THEN "recover" ELSE "none"
    ELSE IF ~chat_is_asleep(m) THEN "needs"
    ELSE IF m.energy = 0 THEN "dream" ELSE "none"

RestChat == <<grid, objects, current_location_coords, gen_edges,
              state_lock, oracle_calls>>

\* LivingMind.live: one beat up to the with block it enters
ChatBeat ==
    \E m \in {[psyche EXCEPT !.now = @ + BeatSeconds]} :
        /\ threads["live"] = "idle"
        /\ m.now <= MaxChatClock
        /\ psyche' = m
        /\ threads' = [threads EXCEPT !["live"] = beat_site(m)]
        /\ last_call' = Call("live", "live", "none", "none", beat_site(m))
        /\ UNCHANGED RestChat

\* a thread is done with a beat that entered no with block
ChatBeatEnds ==
    /\ threads["live"] = "none"
    /\ threads' = [threads EXCEPT !["live"] = "idle"]
    /\ last_call' = Call("live", "live", "none", "none", "continue")
    /\ UNCHANGED <<psyche, RestChat>>

\* with self.thinking_lock: the thread waits until the lock is free, runs
\* the block and releases the lock; _enter_forced_sleep then returns into
\* process_thought, whose finally releases the lock as well; after the block
\* that lowers the needs the beat goes on
ChatWithLock ==
    \E t \in ChatThreads :
        /\ threads[t] \in {"_enter_forced_sleep", "recover", "needs", "fall_asleep",
                           "dream"}
        /\ psyche.thinking_lock = "free"
        /\ psyche' = with_thinking_lock(psyche, threads[t])
        /\ threads' = [threads EXCEPT ![t] = IF threads[t] = "needs" THEN "after_needs"
                                             ELSE "idle"]
        /\ last_call' = Call("with thinking_lock", t, "none", "none", threads[t])
        /\ UNCHANGED RestChat

\* live() after the needs were lowered: with a user whose conversation log
\* waits to be synthesized it calls process_thought; otherwise, with energy
\* under the threshold, it goes to the block that sets energy to 0.0
ChatAfterNeeds ==
    \E logs \in BOOLEAN :
        /\ threads["live"] = "after_needs"
        /\ IF logs /\ psyche.thinking_lock = "free"
           THEN /\ psyche' = [psyche EXCEPT !.thinking_lock = "live"]
                /\ threads' = [threads EXCEPT !["live"] =
                                   IF chat_is_asleep(psyche) THEN "idle" ELSE "consult"]
                /\ last_call' = Call("process_thought", "live", "after_needs", "none",
                                     IF chat_is_asleep(psyche) THEN "asleep" ELSE "consult")
           ELSE /\ UNCHANGED psyche
                /\ threads' = [threads EXCEPT !["live"] =
                                   IF ~logs /\ psyche.energy < 10 THEN "fall_asleep"
                                   ELSE "idle"]
                /\ last_call' = Call("live", "live", "after_needs", "none",
                                     IF logs THEN "dropped" ELSE "continue")
        /\ UNCHANGED RestChat

\* process_thought up to the oracle call: the request is dropped when the
\* lock is taken; when the lock was acquired and the mind is asleep the
\* method returns before its try block.  The heartbeat thread makes this
\* call once, before its first beat.
ChatProcessThought ==
    \E t \in ChatThreads :
        /\ threads[t] = "idle"
        /\ t = "live" => psyche.now = 0
        /\ t = "input" => ~chat_is_asleep(psyche)
        /\ IF psyche.thinking_lock # "free"
           THEN /\ UNCHANGED <<psyche, threads>>
                /\ last_call' = Call("process_thought", t, "none", "none", "dropped")
           ELSE /\ psyche' = [psyche EXCEPT !.thinking_lock = t]
                /\ threads' = [threads EXCEPT ![t] =
                                   IF chat_is_asleep(psyche) THEN "idle" ELSE "consult"]
                /\ last_call' = Call("process_thought", t, "none", "none",
                                     IF chat_is_asleep(psyche) THEN "asleep" ELSE "consult")
        /\ UNCHANGED RestChat

\* LivingMind._safe_generate_content returns inside process_thought: with a
\* text or another error the finally block releases the lock; "429" calls
\* _enter_forced_sleep
ChatOracleReturns ==
    \E t \in ChatThreads : \E outcome \in {"reply", "quota_error", "other_error"} :
        /\ threads[t] = "consult"
        /\ outcome = "quota_error" =>
               psyche.now + ForcedSleepWindow + BeatSeconds <= MaxChatClock
        /\ psyche' = IF outcome = "quota_error" /\ ~psyche.is_rate_limited
                     THEN [psyche EXCEPT !.quota_hit = TRUE]
                     ELSE [psyche EXCEPT !.thinking_lock = "free"]
        /\ threads' = [threads EXCEPT ![t] =
                           IF outcome = "quota_error" /\ ~psyche.is_rate_limited
                           THEN "_enter_forced_sleep" ELSE "idle"]
        /\ last_call' = Call("_safe_generate_content", t, "none", "called", outcome)
        /\ UNCHANGED RestChat

\* the energy load_state finds in memory.json
InitChat ==
    /\ psyche \in {NewLivingMind(e) : e \in {100, 11, 5}}
    /\ last_call = NoCall
    /\ WorldInit
    /\ threads = [t \in ChatThreads |-> "idle"]
    /\ state_lock = NoThread
    /\ oracle_calls = {}

NextChat ==
    \/ ChatBeat
    \/ ChatBeatEnds
    \/ ChatWithLock
    \/ ChatAfterNeeds
    \/ ChatProcessThought
    \/ ChatOracleReturns

\* the heartbeat thread keeps running, a with block is entered once the lock
\* is free, an oracle call returns or times out; nothing obliges the user to
\* type
SpecChat ==
    /\ InitChat /\ [][NextChat]_vars
    /\ WF_vars(ChatBeat) /\ WF_vars(ChatBeatEnds)
    /\ WF_vars(ChatWithLock) /\ WF_vars(ChatOracleReturns)
    /\ WF_vars(ChatAfterNeeds)

\* C14: once a quota error has triggered dormancy, the dormant state is
\* entered, and dormancy ends by itself: the agent, once dormant, is no
\* longer dormant after the beat that follows the end of the window.
C14_DormancyEntersAndEnds ==
    /\ psyche.quota_hit ~> psyche.is_rate_limited
    /\ psyche.is_rate_limited ~> ~psyche.is_rate_limited

\* C32: every process_thought call ends with the thinking lock free: a
\* thread that is back from the call does not hold the lock (asleep at call
\* time included), and no thread waits for the lock while holding it (the
\* forced sleep after a quota error).
C32_ProcessThoughtLeavesTheLockFree ==
    \A t \in ChatThreads :
        psyche.thinking_lock = t =>
            /\ threads[t] # "idle"
            /\ threads[t] # "_enter_forced_sleep"

\* the agent has just fallen asleep for want of energy: the block that lowers
\* the needs took energy under the threshold, and it is not rate limited;
\* three more beats fit under MaxChatClock, one more than waking takes
FellAsleep ==
    /\ last_call.op = "with thinking_lock"
    /\ last_call.result = "needs"
    /\ psyche.energy < 10
    /\ ~psyche.is_rate_limited
    /\ psyche.now + 3 * BeatSeconds <= MaxChatClock

\* C39: an agent that falls asleep because its energy dropped below the
\* sleep threshold, without rate limiting, eventually wakes: its energy is
\* restored to 1.0 on a later beat, with or without unsynthesized
\* conversation logs.
C39_EnergySleepEventuallyWakes == FellAsleep ~> psyche.energy = 100


(***************************************************************************)
(* SpecSearch: one SearchAction from its start() to its end, a beat of the *)
(* heartbeat per update().  psyche is the SearchAction object.  Besides    *)
(* its own fields it carries: order, the order in which the connection     *)
(* dicts of the world are iterated; narration, the narration events the    *)
(* running call has sent; visits, the coordinates dequeued and examined so *)
(* far; origin, the coordinate the search started at; at, the agent's      *)
(* coordinate as the action last read or wrote it.                         *)
(***************************************************************************)
SearchDepths == {2, 3}

SearchTargets == {"stove", "bed", "park_bench", "coat_rack", "unicorn"}

\* dict orders: that of the default Living Room first
ConnOrders ==
    {<<"south", "east", "west", "north", "up", "down">>,
     <<"west", "north", "east", "south", "down", "up">>}

\* the default world after the agent has found a street west of the Bedroom
\* and a stairwell east of it
GeneratedWorld ==
    discover_and_generate_location(
        discover_and_generate_location(
            [grid |-> DefaultGrid, objects |-> DefaultObjects,
             current_location_coords |-> <<0, -1, 0>>, gen_edges |-> {}],
            <<0, -1, 0>>, "west",
            Reply(TRUE, TRUE, TRUE, TRUE, TRUE, "Quiet Street", "None",
                  {"park_bench", "umbrella"}),
            Reply(FALSE, FALSE, FALSE, FALSE, FALSE, "None", "None", {})).w,
        <<0, -1, 0>>, "east",
        Reply(TRUE, TRUE, TRUE, TRUE, TRUE, "Stairwell", "indoor", {}),
        Reply(FALSE, FALSE, FALSE, FALSE, FALSE, "None", "None", {})).w

SearchGrids == {DefaultGrid, GeneratedWorld.grid}

\* SearchAction.__init__
NewSearchAction(object_name, search_depth, order) ==
    [object_name |-> object_name,
     search_depth |-> search_depth,
     duration |-> search_depth * 2,
     beats_elapsed |-> 0,
     is_finished |-> FALSE,
     was_successful |-> FALSE,
     visited_coords |-> {},
     search_queue |-> <<>>,
     search_is_outdoors |-> FALSE,
     start_called |-> FALSE,
     order |-> order,
     narration |-> <<>>,
     visits |-> <<>>,
     origin |-> Nowhere,
     at |-> Nowhere]

\* ConsciousMind._send_narration, by the event narrated
send_narration(a, event) == [a EXCEPT !.narration = Append(@, event)]

\* Action.finish on the SearchAction, which does not override it
Search_finish(a, success) ==
    IF a.is_finished THEN a
    ELSE [a EXCEPT !.was_successful = success, !.is_finished = TRUE]

\* SearchAction.start
Search_start(a, g, coords) ==
    send_narration(
        [a EXCEPT !.start_called = TRUE,
                  !.search_is_outdoors = (get_location_at(g, coords).type = "outdoor"),
                  !.search_queue = Append(@, [coords |-> coords, depth |-> 0]),
                  !.visited_coords = @ \cup {coords},
                  !.origin = coords,
                  !.at = coords], "begins")

\* the test of the neighbour loop that enqueues everything not yet seen
may_enqueue_unbounded(a, g, coords) ==
    /\ coords \notin a.visited_coords
    /\ get_location_at(g, coords) # NoLocation

\* the tests of the neighbour loop: not seen, on the grid, and not outdoor
\* unless the search began outdoors
may_enqueue(a, g, coords) ==
    /\ coords \notin a.visited_coords
    /\ get_location_at(g, coords) # NoLocation
    /\ ~(~a.search_is_outdoors /\ get_location_at(g, coords).type = "outdoor")

\* the neighbour loop of SearchAction.update, from the i-th connection on
RECURSIVE enqueue_neighbors(_, _, _, _, _)
enqueue_neighbors(a, g, connections, depth, i) ==
    IF i > Len(a.order) THEN a
    ELSE enqueue_neighbors(
             IF connections[a.order[i]] # Nowhere
                /\ may_enqueue(a, g, connections[a.order[i]])
             THEN [a EXCEPT !.visited_coords = @ \cup {connections[a.order[i]]},
                            !.search_queue =
                                Append(@, [coords |-> connections[a.order[i]],
                                           depth |-> depth + 1])]
             ELSE a,
             g, connections, depth, i + 1)

\* the found branch without its return: the neighbours are enqueued as well
search_found_goes_on(a, g, head) ==
    enqueue_neighbors(Search_finish(send_narration(a, "found"), TRUE), g,
                      get_location_at(g, head.coords).connections, head.depth, 1)

\* the found branch of SearchAction.update
search_found(a, g, head) == Search_finish(send_narration(a, "found"), TRUE)

\* SearchAction.update from the pop on; head is the entry popped
search_examine(a, g, head) ==
    IF get_location_at(g, head.coords) = NoLocation THEN a
    ELSE IF a.object_name \in get_location_at(g, head.coords).objects
    THEN search_found(
             send_narration([a EXCEPT !.at = head.coords,
                                      !.visits = Append(@, head.coords)], "goes_to"),
             g, head)
    ELSE IF head.depth < a.search_depth
    THEN enqueue_neighbors(
             send_narration([a EXCEPT !.at = head.coords,
                                      !.visits = Append(@, head.coords)], "goes_to"),
             g, get_location_at(g, head.coords).connections, head.depth, 1)
    ELSE send_narration([a EXCEPT !.at = head.coords,
                                  !.visits = Append(@, head.coords)], "goes_to")

\* the empty-queue branch that finishes without a narration
search_exhausted_silent(a) == Search_finish(a, FALSE)

\* the empty-queue branch of SearchAction.update
search_exhausted(a) == Search_finish(send_narration(a, "not_found"), FALSE)

\* SearchAction.update after super().update()
search_beat(c, g) ==
    IF c.is_finished
    THEN IF c.search_queue # <<>> THEN send_narration(c, "gave_up") ELSE c
    ELSE IF c.search_queue = <<>> THEN search_exhausted(c)
    ELSE search_examine([c EXCEPT !.search_queue = Tail(@)], g, Head(c.search_queue))

\* Action.update on the SearchAction
Search_base_update(a) ==
    IF a.beats_elapsed + 1 >= a.duration /\ ~a.is_finished
    THEN Search_finish([a EXCEPT !.beats_elapsed = @ + 1], FALSE)
    ELSE [a EXCEPT !.beats_elapsed = @ + 1]

\* SearchAction.update
Search_update(a, g) == search_beat(Search_base_update(a), g)

RestSearch == <<grid, objects, gen_edges, threads, state_lock, oracle_calls>>

\* ActionManager.start_action: action.start()
SearchStart ==
    /\ ~psyche.start_called
    /\ psyche' = Search_start(psyche, grid, current_location_coords)
    /\ current_location_coords' = psyche'.at
    /\ last_call' = Call("search_start", psyche.object_name, "none", "none", "none")
    /\ UNCHANGED RestSearch

\* ActionManager.update: current_action.update(), once a beat while the
\* action is the current one
SearchUpdate ==
    /\ psyche.start_called
    /\ ~psyche.is_finished
    /\ psyche' = Search_update([psyche EXCEPT !.narration = <<>>], grid)
    /\ current_location_coords' = psyche'.at
    /\ last_call' = Call("search_update", psyche.object_name, "none", "none", "none")
    /\ UNCHANGED RestSearch

InitSearch ==
    /\ \E t \in SearchTargets, d \in SearchDepths, o \in ConnOrders :
           psyche = NewSearchAction(t, d, o)
    /\ last_call = NoCall
    /\ grid \in SearchGrids
    /\ current_location_coords \in {c \in DOMAIN grid : grid[c] # NoLocation}
    /\ objects = DefaultObjects
    /\ gen_edges = {}
    /\ threads = <<>>
    /\ state_lock = NoThread
    /\ oracle_calls = {}

NextSearch == SearchStart \/ SearchUpdate

\* the heartbeat runs a beat every second while the program lives
SpecSearch ==
    InitSearch /\ [][NextSearch]_vars /\ WF_vars(SearchStart) /\ WF_vars(SearchUpdate)

IsOutdoor(c) == get_location_at(grid, c).type = "outdoor"

QueuedCoords == {psyche.search_queue[i].coords : i \in DOMAIN psyche.search_queue}

VisitedCoords == {psyche.visits[i] : i \in DOMAIN psyche.visits}

\* C22: during a search no coordinate is dequeued and examined more than
\* once, and a search that started at an indoor location never enqueues or
\* visits an outdoor location (one that started outdoors may enter indoor
\* locations).
C22_NoRevisitAndIndoorStaysIndoors ==
    /\ \A i, j \in DOMAIN psyche.visits : i # j => psyche.visits[i] # psyche.visits[j]
    /\ (psyche.start_called /\ ~IsOutdoor(psyche.origin))
          => \A c \in QueuedCoords \cup VisitedCoords \cup psyche.visited_coords :
                 ~IsOutdoor(c)

\* an indoor search has passed a location with an outdoor neighbour and gone
\* on, and the search is over
C22_Witness ==
    /\ psyche.is_finished
    /\ ~IsOutdoor(psyche.origin)
    /\ Len(psyche.visits) >= 3
    /\ \E c \in VisitedCoords : \E d \in Directions :
           /\ grid[c].connections[d] # Nowhere
           /\ IsOutdoor(grid[c].connections[d])

\* a search that started outdoors has examined an indoor location
C22_OutdoorSearchEntersIndoors ==
    /\ psyche.start_called
    /\ IsOutdoor(psyche.origin)
    /\ \E c \in VisitedCoords : ~IsOutdoor(c)


\* the update() that ends the search, and the three ways it can end, read
\* from the state the update found
SearchEnds == last_call'.op = "search_update" /\ psyche'.is_finished

TimeoutFires == psyche.beats_elapsed + 1 >= psyche.duration

HeadHoldsTarget ==
    /\ psyche.search_queue # <<>>
    /\ psyche.object_name
           \in get_location_at(grid, Head(psyche.search_queue).coords).objects

WayItEnds ==
    IF TimeoutFires THEN "gave_up"
    ELSE IF psyche.search_queue = <<>> THEN "not_found"
    ELSE IF HeadHoldsTarget THEN "found"
    ELSE "none"

\* the way read back from the observable result: the outcome and the
\* narration events of the last update()
WayObserved(was_successful, narration) ==
    IF was_successful /\ narration = <<"goes_to", "found">> THEN "found"
    ELSE IF ~was_successful /\ narration = <<"not_found">> THEN "not_found"
    ELSE IF ~was_successful /\ narration \in {<<"gave_up">>, <<>>} THEN "gave_up"
    ELSE "unknown"

C23_OtherEnds ==
    /\ psyche.is_finished
    /\ psyche.narration \in {<<"goes_to", "found">>, <<"not_found">>, <<>>}


\* the update() that dequeues a location holding the target
ExaminesTarget ==
    /\ last_call'.op = "search_update"
    /\ ~TimeoutFires
    /\ HeadHoldsTarget

\* that update() ends the search with success and only dequeues
FoundEndsTheSearch ==
    /\ psyche'.is_finished
    /\ psyche'.was_successful
    /\ psyche'.search_queue = Tail(psyche.search_queue)
    /\ psyche'.visited_coords = psyche.visited_coords
    /\ psyche'.visits = Append(psyche.visits, Head(psyche.search_queue).coords)

\* a successful search is left as it is
SuccessIsFinal ==
    (psyche.is_finished /\ psyche.was_successful)
        => UNCHANGED <<psyche.search_queue, psyche.visited_coords, psyche.visits>>

\* the locations one connection from the start of the search
HopOne ==
    {get_location_at(grid, psyche.origin).connections[d] : d \in Directions}
        \ {Nowhere, psyche.origin}

\* a depth-2 search that started indoors, its target not in the start
\* location but in an indoor location at hop 1
HopOneCase ==
    /\ psyche.start_called
    /\ psyche.search_depth = 2
    /\ ~IsOutdoor(psyche.origin)
    /\ psyche.object_name \notin get_location_at(grid, psyche.origin).objects
    /\ \E c \in HopOne : /\ ~IsOutdoor(c)
                         /\ psyche.object_name \in get_location_at(grid, c).objects

NoHopTwoExplored == VisitedCoords \subseteq HopOne \cup {psyche.origin}

Abs(n) == IF n < 0 THEN 0 - n ELSE n

\* heuristic of find_path
heuristic(a, b) == Abs(a[1] - b[1]) + Abs(a[2] - b[2]) + Abs(a[3] - b[3])

\* the order of Python tuples of integers of equal length
RECURSIVE TupleLess(_, _, _)
TupleLess(a, b, i) ==
    IF i > Len(a) THEN FALSE
    ELSE IF a[i] # b[i] THEN a[i] < b[i]
    ELSE TupleLess(a, b, i + 1)

EntryLess(e, f) ==
    e.priority < f.priority
        \/ (e.priority = f.priority /\ TupleLess(e.node, f.node, 1))

\* heapq.heappop: the least entry of the heap
heappop(open_set) == CHOOSE e \in open_set : \A f \in open_set \ {e} : EntryLess(e, f)

\* the order in which a connections dict is iterated
DictOrder == <<"north", "south", "east", "west", "up", "down">>

\* the direction loop of the path reconstruction: the first connection of
\* previous_loc that leads to current
RECURSIVE first_direction_to(_, _, _)
first_direction_to(previous_loc, current, i) ==
    IF i > Len(DictOrder) THEN <<>>
    ELSE IF previous_loc.connections[DictOrder[i]] = current THEN <<DictOrder[i]>>
    ELSE first_direction_to(previous_loc, current, i + 1)

\* the reconstruction loop of find_path without the reversal: path
RECURSIVE reconstruct_unreversed(_, _, _)
reconstruct_unreversed(g, came_from, current) ==
    IF current \notin DOMAIN came_from THEN <<>>
    ELSE (IF get_location_at(g, came_from[current]) = NoLocation THEN <<>>
          ELSE first_direction_to(get_location_at(g, came_from[current]), current, 1))
            \o reconstruct_unreversed(g, came_from, came_from[current])

\* the reconstruction loop of find_path: path[::-1]
RECURSIVE reconstruct(_, _, _)
reconstruct(g, came_from, current) ==
    IF current \notin DOMAIN came_from THEN <<>>
    ELSE reconstruct(g, came_from, came_from[current])
            \o (IF get_location_at(g, came_from[current]) = NoLocation THEN <<>>
                ELSE first_direction_to(get_location_at(g, came_from[current]), current, 1))

\* the test of the neighbour loop: tentative_g_score < g_score.get(neighbor, inf)
improves(st, neighbor, tentative_g_score) ==
    neighbor \notin DOMAIN st.g_score \/ tentative_g_score < st.g_score[neighbor]

\* the body of the neighbour loop for one neighbour that improves
relax(st, current, neighbor, goal) ==
    [open_set |->
         IF \E e \in st.open_set : e.node = neighbor THEN st.open_set
         ELSE st.open_set \cup
                  {[priority |-> st.g_score[current] + 1 + heuristic(neighbor, goal),
                    node |-> neighbor]},
     came_from |-> (neighbor :> current) @@ st.came_from,
     g_score |-> (neighbor :> st.g_score[current] + 1) @@ st.g_score]

\* the neighbour loop of find_path, from the i-th connection on
RECURSIVE neighbor_loop(_, _, _, _, _)
neighbor_loop(st, connections, current, goal, i) ==
    IF i > Len(DictOrder) THEN st
    ELSE neighbor_loop(
             IF connections[DictOrder[i]] # Nowhere
                /\ improves(st, connections[DictOrder[i]], st.g_score[current] + 1)
             THEN relax(st, current, connections[DictOrder[i]], goal)
             ELSE st,
             connections, current, goal, i + 1)

\* a fall-through of the loop that returns the empty list
EmptyPath == [found |-> TRUE, path |-> <<>>]

\* return None
NoPath == [found |-> FALSE, path |-> <<>>]

\* the while loop of find_path; e is the entry popped
RECURSIVE astar(_, _, _)
astar_pop(g, goal, st, e) ==
    IF e.node = goal
    THEN [found |-> TRUE, path |-> reconstruct(g, st.came_from, e.node)]
    ELSE IF get_location_at(g, e.node) = NoLocation
    THEN astar(g, goal, [st EXCEPT !.open_set = @ \ {e}])
    ELSE astar(g, goal,
               neighbor_loop([st EXCEPT !.open_set = @ \ {e}],
                             get_location_at(g, e.node).connections, e.node, goal, 1))

astar(g, goal, st) ==
    IF st.open_set = {} THEN NoPath
    ELSE astar_pop(g, goal, st, heappop(st.open_set))

\* WorldManager.find_path
find_path(g, start_coords, goal_coords) ==
    astar(g, goal_coords,
          [open_set |-> {[priority |-> 0, node |-> start_coords]},
           came_from |-> <<>>,
           g_score |-> (start_coords :> 0)])

\* worlds generation has made: the street found again, from the Kitchen to
\* its south, and the stairwell found again from the Hallway
RegeneratedWorld ==
    discover_and_generate_location(
        GeneratedWorld, <<-1, 0, 0>>, "south",
        Reply(TRUE, TRUE, TRUE, TRUE, TRUE, "Alley", "outdoor", {"park_bench"}),
        Reply(FALSE, FALSE, FALSE, FALSE, FALSE, "None", "None", {})).w

CircularWorld ==
    discover_and_generate_location(
        RegeneratedWorld, <<1, 0, 0>>, "south",
        Reply(TRUE, TRUE, TRUE, TRUE, TRUE, "Stairwell", "indoor", {}),
        Reply(FALSE, FALSE, FALSE, FALSE, FALSE, "None", "None", {})).w

PathGrids == {DefaultGrid, GeneratedWorld.grid, RegeneratedWorld.grid, CircularWorld.grid}

\* the coordinates asked about: the region and one coordinate off the grid
PathCoords == Region \cup {<<0, 1, 0>>}

RestPath == <<grid, objects, gen_edges, threads, state_lock, oracle_calls>>

\* a call of find_path(start, goal)
PathFind ==
    /\ last_call.op = "none"
    /\ last_call' = Call("find_path", psyche.goal, current_location_coords, "none",
                         find_path(grid, current_location_coords, psyche.goal))
    /\ UNCHANGED <<psyche, current_location_coords, RestPath>>

InitPath ==
    /\ psyche \in [goal : PathCoords]
    /\ last_call = NoCall
    /\ grid \in PathGrids
    /\ current_location_coords \in PathCoords
    /\ objects = DefaultObjects
    /\ gen_edges = {}
    /\ threads = <<>>
    /\ state_lock = NoThread
    /\ oracle_calls = {}

NextPath == PathFind

SpecPath == InitPath /\ [][NextPath]_vars

\* the coordinates one connection from c
Neighbors(c) ==
    {get_location_at(grid, c).connections[d] : d \in Directions} \ {Nowhere}

\* the coordinates within n connections of the start
RECURSIVE Within(_)
Within(n) ==
    IF n = 0 THEN {current_location_coords}
    ELSE Within(n - 1) \cup UNION {Neighbors(c) : c \in Within(n - 1)}

MaxHops == 7

Reachable == psyche.goal \in Within(MaxHops)

\* the breadth-first distance of a reachable goal
Distance == CHOOSE n \in 0..MaxHops :
                psyche.goal \in Within(n) /\ (n > 0 => psyche.goal \notin Within(n - 1))

\* where following the direction labels from c leads; Nowhere off the
\* connections
RECURSIVE Follow(_, _, _)
Follow(c, path, i) ==
    IF i > Len(path) THEN c
    ELSE IF c = Nowhere \/ get_location_at(grid, c) = NoLocation THEN Nowhere
    ELSE Follow(get_location_at(grid, c).connections[path[i]], path, i + 1)

PathReturned == last_call.op = "find_path"

\* C25: find_path returns None if and only if the goal is unreachable from
\* the start through connections, the empty list if and only if start
\* equals goal, and a list of length 1 when the goal is the target of one of
\* the start location's connections.
C25_NoneEmptyAndOneStep ==
    PathReturned =>
        /\ ~last_call.result.found <=> ~Reachable
        /\ (last_call.result.found /\ last_call.result.path = <<>>)
               <=> current_location_coords = psyche.goal
        /\ (psyche.goal \in Neighbors(current_location_coords)
               /\ psyche.goal # current_location_coords)
               => (last_call.result.found /\ Len(last_call.result.path) = 1)

\* None has been returned for a goal that no connection sequence from a
\* start on the grid reaches
C25_Witness ==
    /\ PathReturned
    /\ ~last_call.result.found
    /\ ~Reachable
    /\ get_location_at(grid, current_location_coords) # NoLocation

MaxThoughtOps == 3
MaxThoughtBeats == 3

\* what the text of a reply is to the parsing code: no {...} span in it, a
\* span json.loads rejects, or an object
ReplyShapes == {"no_object", "malformed", "object"}

ThoughtKeys == {"null", "sleep", "paint", "explore"}

\* a consultation: outcome, what generate_content did; shape, action and
\* set_goal, the text it returned; plan_ok and plan, the oracle's answer to
\* the planning prompt if one is sent; saves, the action's start() ends in
\* save_state() (a location was generated)
ThoughtReplies ==
    {[outcome |-> o, shape |-> "no_object", action |-> "null", set_goal |-> FALSE,
      plan_ok |-> FALSE, plan |-> <<>>, saves |-> FALSE] :
        o \in OracleOutcomes}
    \cup {[outcome |-> "reply", shape |-> "malformed", action |-> "null",
           set_goal |-> FALSE, plan_ok |-> FALSE, plan |-> <<>>, saves |-> FALSE]}
    \cup {[outcome |-> "reply", shape |-> "object", action |-> k, set_goal |-> g,
           plan_ok |-> r.plan_ok, plan |-> r.plan, saves |-> v] :
              k \in ThoughtKeys, g \in BOOLEAN, r \in PlanReplies({<<"paint", "sleep">>}),
              v \in BOOLEAN}

\* how the reply reads to _process_deep_thought
ReplyClass(r) == IF r.outcome # "reply" THEN "absent" ELSE r.shape

\* ConsciousMind._respond with a message
respond(p) == [p EXCEPT !.responses = @ + 1, !.contact = "recent"]

\* the end of _process_deep_thought: if action_name, the factory's action is
\* started
start_named_action(q, key, env) ==
    IF key # "null" /\ factory(key, env) \in ActionKinds
    THEN start_action(q, factory(key, env), env)
    ELSE q

\* _process_deep_thought on a reply that is an object
process_object(q, trigger, r, env) ==
    IF trigger = FailureTrigger THEN respond(q)
    ELSE start_named_action(
             IF r.set_goal /\ q.action_plan = <<>>
             THEN generate_action_plan(q, FALSE, env)
             ELSE q,
             r.action, env)

\* a reply that is not an object treated as a failed plan
process_reply_dropping(q, trigger, r, env) ==
    IF ReplyClass(r) = "object" THEN process_object(q, trigger, r, env)
    ELSE [q EXCEPT !.action_plan = <<>>, !.current_mission = "None"]

\* _process_deep_thought after the oracle call
process_reply(q, trigger, r, env) ==
    IF ReplyClass(r) = "object" THEN process_object(q, trigger, r, env) ELSE q

\* the worker leaves the with block, unless the action it started called
\* save_state(), which waits for the lock the worker holds
leaves_with_block(r, trigger) ==
    ~(ReplyClass(r) = "object" /\ trigger # FailureTrigger
      /\ r.action = "explore" /\ r.saves)

RestThought == <<grid, objects, current_location_coords, gen_edges, oracle_calls>>

\* ConsciousMind.think: a worker thread is started
ThoughtThink ==
    \E trigger \in {"AUTONOMOUS", FailureTrigger} :
        /\ threads.worker = "none"
        /\ psyche.ops < MaxThoughtOps
        /\ threads' = [worker |-> "wait_lock", trigger |-> trigger]
        /\ last_call' = Call("think", trigger, "none", "none", "none")
        /\ UNCHANGED <<psyche, state_lock, RestThought>>

\* with self.psyche.state_lock, and the prompt is sent
ThoughtAcquires ==
    /\ threads.worker = "wait_lock"
    /\ state_lock = NoThread
    /\ state_lock' = Worker(1)
    /\ threads' = [threads EXCEPT !.worker = "consult"]
    /\ last_call' = Call("_process_deep_thought", threads.trigger, "none", "none", "acquired")
    /\ UNCHANGED <<psyche, RestThought>>

\* the oracle call returns and the rest of _process_deep_thought runs
ThoughtReply ==
    \E r \in ThoughtReplies :
        /\ threads.worker = "consult"
        /\ psyche' = [process_reply(safe_generate_content(Fresh(psyche), r.outcome),
                                    threads.trigger, r,
                                    [QuietEnv EXCEPT !.plan_ok = r.plan_ok,
                                                     !.plan = r.plan])
                        EXCEPT !.ops = psyche.ops + 1]
        /\ state_lock' = IF leaves_with_block(r, threads.trigger) THEN NoThread
                         ELSE state_lock
        /\ threads' = [threads EXCEPT !.worker =
                          IF leaves_with_block(r, threads.trigger) THEN "none"
                          ELSE "self_wait"]
        /\ last_call' = Call("reply", ReplyClass(r), psyche.current_action.kind,
                             r.outcome, StatusOf(leaves_with_block(r, threads.trigger)))
        /\ UNCHANGED RestThought

\* one iteration of Psyche.live
ThoughtBeat ==
    /\ psyche.beat < MaxThoughtBeats
    /\ psyche' = Beat(Fresh(psyche), QuietEnv)
    /\ last_call' = Call("beat", "none", psyche.current_action.kind, "none", "none")
    /\ UNCHANGED <<threads, state_lock, RestThought>>

InitThought ==
    /\ psyche = NewPsyche
    /\ last_call = NoCall
    /\ WorldInit
    /\ threads = [worker |-> "none", trigger |-> "none"]
    /\ state_lock = NoThread
    /\ oracle_calls = {}

NextThought == ThoughtThink \/ ThoughtAcquires \/ ThoughtReply \/ ThoughtBeat

SpecThought == InitThought /\ [][NextThought]_vars

\* the plan, the mission, the current action, the last-action-status and the
\* affect state of the agent
Kept(p) ==
    <<p.action_plan, p.current_mission, p.mission_found, p.mission_count,
      p.current_action, p.last_action_status,
      p.dopamine, p.cortisol, p.oxytocin, p.serotonin, p.norepinephrine,
      p.understanding, p.connection, p.creativity, p.energy, p.hunger, p.is_sleeping>>

\* C28: when the oracle's reply to a cognition request is absent, contains no
\* structured object or is malformed, the request is discarded: plan,
\* mission, current action, last-action-status, world and affect state are
\* unchanged and the state lock is released.
C28_UnusableReplyIsDiscarded ==
    [][(last_call'.op = "reply"
        /\ last_call'.arg \in {"absent", "no_object", "malformed"})
       => /\ Kept(psyche') = Kept(psyche)
          /\ UNCHANGED <<grid, objects, current_location_coords>>
          /\ state_lock = Worker(1)
          /\ state_lock' = NoThread]_vars

\* a malformed reply has been discarded while a plan was under way
C28_Witness ==
    /\ last_call.op = "reply"
    /\ last_call.arg = "malformed"
    /\ psyche.action_plan # <<>>
    /\ psyche.current_mission = "goal"
    /\ state_lock = NoThread


(***************************************************************************)
(* SpecNeeds: the bodily needs under the heartbeat and the actions that    *)
(* write them: work, eating, sleeping.  The needs start at a level the     *)
(* saved state can hold; a beat's somatic update is skipped while another  *)
(* thread holds the state lock.                                            *)
(***************************************************************************)
MaxNeedBeats == 11
MaxNeedOps == 1

NeedKinds == {"DoWorkAction", "EatAction", "SleepAction"}

RestNeeds == <<grid, objects, current_location_coords, gen_edges,
               threads, state_lock, oracle_calls>>

\* one iteration of Psyche.live
NeedsBeat ==
    \E locked \in BOOLEAN :
        /\ psyche.beat < MaxNeedBeats
        /\ psyche' = Beat(Fresh(psyche), [QuietEnv EXCEPT !.locked = locked])
        /\ last_call' = Call("beat", "none", psyche.current_action.kind, "none",
                             StatusOf(locked))
        /\ UNCHANGED RestNeeds

\* start_action with a work, eat or sleep action the oracle's reply named
NeedsStartAction ==
    \E kind \in NeedKinds :
        /\ psyche.ops < MaxNeedOps
        /\ psyche' = start_action(Fresh(psyche), kind, QuietEnv)
        /\ last_call' = Call("start_action", kind, psyche.current_action.kind, "none", "none")
        /\ UNCHANGED RestNeeds

InitNeeds ==
    /\ \E n \in {NeedScale, NeedPart(1500), 0} :
           psyche = [NewPsyche EXCEPT !.energy = n, !.hunger = n]
    /\ last_call = NoCall
    /\ RestInit

NextNeeds == NeedsBeat \/ NeedsStartAction

SpecNeeds == InitNeeds /\ [][NextNeeds]_vars

\* C29: in every reachable state the bounded needs energy and hunger are
\* within [0, 1], after any sequence of beats (awake or asleep, beats whose
\* somatic update is skipped included) and of action completions (work,
\* eating, sleeping).
C29_NeedsInUnitInterval ==
    /\ 0 <= psyche.energy /\ psyche.energy <= NeedScale
    /\ 0 <= psyche.hunger /\ psyche.hunger <= NeedScale


(***************************************************************************)
(* SpecMood: LimbicState._update_mood_profile as a function of the five    *)
(* affect scalars.  psyche is the LimbicState.                             *)
(***************************************************************************)
\* the keys of the moods dict, in the order they are inserted
MoodLabels == <<"anxious", "stressed", "elated", "motivated", "melancholic",
                "content", "focused", "stable">>

\* moods[label]
mood_score(l, label) ==
    CASE label = "anxious" -> IF l.cortisol > Part(5000) THEN l.cortisol ELSE 0
      [] label = "stressed" -> IF l.cortisol > Part(6000) THEN Mul(l.cortisol, 8000) ELSE 0
      [] label = "elated" -> IF l.dopamine > Part(8000) THEN l.dopamine ELSE 0
      [] label = "motivated" -> IF l.dopamine > Part(6000) THEN l.dopamine ELSE 0
      [] label = "melancholic" -> IF l.serotonin < Part(4000) THEN Scale - l.serotonin ELSE 0
      [] label = "content" -> IF l.oxytocin > Part(6000) THEN l.oxytocin ELSE 0
      [] label = "focused" -> IF l.norepinephrine > Part(7000) THEN l.norepinephrine ELSE 0
      [] OTHER -> ((l.serotonin - Abs(l.serotonin - Part(5000))) * 15000) \div 10000

\* max(moods, key=moods.get): the first key of the greatest value, from the
\* i-th key on, best being the best of those before
RECURSIVE first_max(_, _, _)
first_max(l, i, best) ==
    IF i > Len(MoodLabels) THEN best
    ELSE first_max(l, i + 1,
                   IF mood_score(l, MoodLabels[i]) > mood_score(l, best)
                   THEN MoodLabels[i] ELSE best)

\* the place of a key in a list sorted the other way round, by rising value
RECURSIVE insert_rising(_, _, _, _)
insert_rising(l, sorted, label, i) ==
    IF i > Len(sorted) \/ mood_score(l, sorted[i]) > mood_score(l, label)
    THEN SubSeq(sorted, 1, i - 1) \o <<label>> \o SubSeq(sorted, i, Len(sorted))
    ELSE insert_rising(l, sorted, label, i + 1)

\* the place of a key in the sorted list: behind every key of a value at
\* least its own (the sort is stable)
RECURSIVE insert_sorted(_, _, _, _)
insert_sorted(l, sorted, label, i) ==
    IF i > Len(sorted) \/ mood_score(l, sorted[i]) < mood_score(l, label)
    THEN SubSeq(sorted, 1, i - 1) \o <<label>> \o SubSeq(sorted, i, Len(sorted))
    ELSE insert_sorted(l, sorted, label, i + 1)

\* sorted(moods.items(), key=value, reverse=True), the first n keys sorted
RECURSIVE sorted_moods(_, _)
sorted_moods(l, n) ==
    IF n = 0 THEN <<>>
    ELSE insert_sorted(l, sorted_moods(l, n - 1), MoodLabels[n], 1)

\* the loop that collects the secondary moods, from the i-th sorted key on
RECURSIVE secondary_moods(_, _, _, _)
secondary_moods(l, sorted, primary_mood, i) ==
    IF i > Len(sorted) THEN <<>>
    ELSE (IF sorted[i] # primary_mood /\ mood_score(l, sorted[i]) > Part(5000)
          THEN <<sorted[i]>> ELSE <<>>)
            \o secondary_moods(l, sorted, primary_mood, i + 1)

\* secondary_moods[:2]
FirstTwo(q) == SubSeq(q, 1, Min(2, Len(q)))

\* LimbicState._update_mood_profile
update_mood_profile(l) ==
    IF \A i \in DOMAIN MoodLabels : mood_score(l, MoodLabels[i]) = 0
    THEN [l EXCEPT !.mood_profile = [primary |-> "neutral", secondary |-> <<>>]]
    ELSE [l EXCEPT !.mood_profile =
             [primary |-> first_max(l, 2, MoodLabels[1]),
              secondary |->
                  FirstTwo(secondary_moods(l, sorted_moods(l, Len(MoodLabels)),
                                           first_max(l, 2, MoodLabels[1]), 1))]]

\* LimbicState.__init__, the scalars at levels an update can leave them at
LimbicStates ==
    [dopamine : {Part(5000), Part(7000), Part(9000)},
     cortisol : {Part(3000), Part(5500), Part(6500), Part(9000), Scale},
     oxytocin : {Part(3000), Part(7000), Part(9000)},
     serotonin : {Part(1000), Part(2500), Part(3500), Part(5000), Part(9000)},
     norepinephrine : {Part(5000), Part(7200), Part(9000)},
     mood_profile : {[primary |-> "stable", secondary |-> <<>>]}]

RestMood == <<grid, objects, current_location_coords, gen_edges,
              threads, state_lock, oracle_calls>>

\* self._update_mood_profile() at the end of LimbicState.update
MoodUpdate ==
    /\ last_call.op = "none"
    /\ psyche' = update_mood_profile(psyche)
    /\ last_call' = Call("_update_mood_profile", "none", "none", "none", "none")
    /\ UNCHANGED RestMood

InitMood ==
    /\ psyche \in LimbicStates
    /\ last_call = NoCall
    /\ RestInit

NextMood == MoodUpdate

SpecMood == InitMood /\ [][NextMood]_vars

LabelSet == {MoodLabels[i] : i \in DOMAIN MoodLabels}

IndexOf(label) == CHOOSE i \in DOMAIN MoodLabels : MoodLabels[i] = label

\* the labels other than the primary one whose score exceeds 0.5
Eligible ==
    {m \in LabelSet \ {psyche.mood_profile.primary} : mood_score(psyche, m) > Part(5000)}

\* C30: after every mood derivation the primary mood is the label with the
\* maximal score (the earliest-defined label among ties), and the secondary
\* moods are the at most two highest-scoring other labels whose score exceeds
\* 0.5, listed in descending score order.
C30_PrimaryIsMaxAndSecondariesAreNextTwo ==
    last_call.op = "_update_mood_profile" =>
        /\ psyche.mood_profile.primary \in LabelSet
        /\ \A m \in LabelSet :
               /\ mood_score(psyche, m) <= mood_score(psyche, psyche.mood_profile.primary)
               /\ mood_score(psyche, m) = mood_score(psyche, psyche.mood_profile.primary)
                      => IndexOf(psyche.mood_profile.primary) <= IndexOf(m)
        /\ Len(psyche.mood_profile.secondary) = Min(2, Cardinality(Eligible))
        /\ \A i \in DOMAIN psyche.mood_profile.secondary :
               /\ psyche.mood_profile.secondary[i] \in Eligible
               /\ \A m \in Eligible \ {psyche.mood_profile.secondary[j] : j \in 1..i} :
                      mood_score(psyche, m) <= mood_score(psyche, psyche.mood_profile.secondary[i])
        /\ \A i, j \in DOMAIN psyche.mood_profile.secondary :
               i < j => /\ psyche.mood_profile.secondary[i] # psyche.mood_profile.secondary[j]
                        /\ mood_score(psyche, psyche.mood_profile.secondary[i])
                               >= mood_score(psyche, psyche.mood_profile.secondary[j])

\* a derivation with a tie for the first place and more than two other
\* labels over 0.5
C30_Witness ==
    /\ last_call.op = "_update_mood_profile"
    /\ psyche.mood_profile.primary = "elated"
    /\ mood_score(psyche, "motivated") = mood_score(psyche, "elated")
    /\ Cardinality(Eligible) > 2
    /\ Len(psyche.mood_profile.secondary) = 2
    /\ mood_score(psyche, psyche.mood_profile.secondary[1])
           > mood_score(psyche, psyche.mood_profile.secondary[2])


(***************************************************************************)
(* SpecLive: Psyche.live beat by beat with autonomy selection, beside a    *)
(* consultation worker whose reply sets a goal or names an action, and the *)
(* stimulus thread.  threads.worker and threads.heartbeat are where the    *)
(* two threads are: "planning" while a _generate_action_plan they called   *)
(* waits for the oracle.  last_call of a beat holds the branch the         *)
(* executor took and the current action as action_manager.update() left    *)
(* it.                                                                     *)
(***************************************************************************)
MaxLiveBeats == 4
MaxLiveOps == 2

\* the entries autonomy selection picks here, the plans the oracle proposes
\* and the actions a reply names
LiveAutos == {"none", "paint"}
LivePlans == {<<"paint", "paint">>, <<"sleep">>}
LiveKinds == {"ExploreAction", "SleepAction", "PaintAction"}

\* Psyche.live: which of the if/elif branches after the updates runs
branch(c) ==
    IF c.action_plan # <<>> THEN "plan"
    ELSE IF c.current_mission # "None" THEN "mission"
    ELSE IF ~is_busy(c) THEN "autonomy"
    ELSE "none"

RestLive == <<grid, objects, current_location_coords, gen_edges,
              state_lock, oracle_calls>>

\* one iteration of Psyche.live; SomaticProcessor.update returns at once
\* while the worker holds state_lock
LiveBeat ==
    \E a \in LiveAutos, fin_ok \in BOOLEAN :
        \E env \in {[QuietEnv EXCEPT !.auto = a, !.fin_ok = fin_ok,
                                     !.locked = threads.worker = "planning"]} :
            \E u \in {beat_updates(Fresh(psyche), env)} :
                /\ threads.heartbeat = "idle"
                /\ psyche.beat < MaxLiveBeats
                /\ psyche' = dispatch(u, env)
                /\ last_call' = Call("beat", a, psyche.action_plan, branch(u),
                                     u.current_action)
                /\ UNCHANGED <<threads, RestLive>>

\* an iteration of Psyche.live in which autonomy selection picks "sleep":
\* _generate_action_plan sets current_mission and asks the oracle
LiveAutonomyAsks ==
    \E env \in {[QuietEnv EXCEPT !.locked = threads.worker = "planning"]} :
        \E u \in {beat_updates(Fresh(psyche), env)} :
            /\ threads.heartbeat = "idle"
            /\ psyche.beat < MaxLiveBeats
            /\ branch(u) = "autonomy"
            /\ Desired(u, "sleep")
            /\ psyche' = [u EXCEPT !.current_mission = "goal"]
            /\ threads' = [threads EXCEPT !.heartbeat = "planning"]
            /\ last_call' = Call("beat", "sleep", psyche.action_plan, branch(u),
                                 u.current_action)
            /\ UNCHANGED RestLive

\* the oracle's reply arrives and the heartbeat's _generate_action_plan goes
\* on; the beat ends
LiveAutonomyReturns ==
    \E r \in PlanReplies(LivePlans) :
        /\ threads.heartbeat = "planning"
        /\ psyche' = generate_action_plan(
                         Fresh(psyche), FALSE,
                         [QuietEnv EXCEPT !.plan_ok = r.plan_ok, !.plan = r.plan])
        /\ threads' = [threads EXCEPT !.heartbeat = "idle"]
        /\ last_call' = Call("autonomy_plan", StatusOf(r.plan_ok), psyche.action_plan,
                             "none", psyche.current_action)
        /\ UNCHANGED RestLive

\* perceive_user_event with the phone at hand, on the stimulus thread
LivePerceive ==
    /\ psyche.ops < MaxLiveOps
    /\ psyche' = interrupt_and_start(Fresh(psyche), "ThinkAndRespondAction", QuietEnv)
    /\ last_call' = Call("interrupt_and_start", "ThinkAndRespondAction",
                         psyche.action_plan, "none", psyche.current_action)
    /\ UNCHANGED <<threads, RestLive>>

\* _process_deep_thought: the reply names an action and the factory returns
\* an instance of it
LiveStartAction ==
    \E kind \in LiveKinds : \E env \in StartEnvs(kind) :
        /\ threads.worker = "idle"
        /\ psyche.ops < MaxLiveOps
        /\ psyche' = start_action(Fresh(psyche), kind, env)
        /\ last_call' = Call("start_action", kind, psyche.action_plan, "none",
                             psyche.current_action)
        /\ UNCHANGED <<threads, RestLive>>

\* _process_deep_thought: "if new_goal and not self.psyche.action_plan" holds
\* and _generate_action_plan sets current_mission and asks the oracle
LiveGoalAsked ==
    /\ threads.worker = "idle"
    /\ psyche.planned = <<>>
    /\ psyche.action_plan = <<>>
    /\ psyche' = [Fresh(psyche) EXCEPT !.current_mission = "goal"]
    /\ threads' = [threads EXCEPT !.worker = "planning"]
    /\ last_call' = Call("set_goal", "asked", psyche.action_plan, "none",
                         psyche.current_action)
    /\ UNCHANGED RestLive

\* the oracle's reply arrives and _generate_action_plan goes on
LiveGoalReturns ==
    \E r \in PlanReplies(LivePlans) :
        /\ threads.worker = "planning"
        /\ psyche' = generate_action_plan(
                         Fresh(psyche), FALSE,
                         [QuietEnv EXCEPT !.plan_ok = r.plan_ok, !.plan = r.plan])
        /\ threads' = [threads EXCEPT !.worker = "idle"]
        /\ last_call' = Call("set_goal", StatusOf(r.plan_ok), psyche.action_plan,
                             "none", psyche.current_action)
        /\ UNCHANGED RestLive

\* the energy load_state finds in the codex
InitLive ==
    /\ \E n \in {NeedScale, NeedPart(2500)} : psyche = [NewPsyche EXCEPT !.energy = n]
    /\ last_call = NoCall
    /\ WorldInit
    /\ threads = [worker |-> "idle", heartbeat |-> "idle"]
    /\ state_lock = NoThread
    /\ oracle_calls = {}

NextLive ==
    \/ LiveBeat
    \/ LiveAutonomyAsks
    \/ LiveAutonomyReturns
    \/ LivePerceive
    \/ LiveStartAction
    \/ LiveGoalAsked
    \/ LiveGoalReturns

SpecLive == InitLive /\ [][NextLive]_vars

\* an action that is neither the idle filler nor finished
Running(a) == ~IsIdle(a) /\ ~a.is_finished

\* C33: the heartbeat's autonomy selection starts an action only while the
\* idle filler is current: when the updates of a beat leave a non-idle action
\* Running and the executor takes its autonomy branch, that action is still
\* the current action after the beat, its elapsed beats kept.
C33_AutonomyStartsOnlyFromIdle ==
    (last_call.op = "beat" /\ last_call.oracle = "autonomy")
        => (Running(last_call.result) => psyche.current_action = last_call.result)


\* C34: the plan executor starts the next step of a plan only after the
\* action started for the step before has finished: when the updates of a
\* beat leave a plan step's action Running, the executor's plan branch
\* leaves it the current action and pops no step.
C34_NextStepWaitsForRunningStep ==
    (last_call.op = "beat" /\ last_call.oracle = "plan")
        => ((last_call.result.plan_step /\ Running(last_call.result))
                => /\ psyche.current_action = last_call.result
                   /\ psyche.action_plan = last_call.before)


\* C35: a plan is aborted for failure only after one of its own steps has
\* run: whenever the executor aborts the plan, at least the first step of the
\* plan that was set had been popped and started, so a failure recorded
\* before the plan was created aborts nothing.
C35_AbortOnlyAfterOwnStep ==
    [][psyche'.plan_failures > psyche.plan_failures
           => Len(last_call'.before) < Len(psyche'.planned)]_vars


\* C36: the sleeping flag is true exactly while a SleepAction is the current
\* action and Running: once a SleepAction is no longer current (finished,
\* replaced by start_action or preempted by interrupt_and_start) the flag is
\* false.
C36_SleepingIffSleepActionRunning ==
    psyche.is_sleeping <=>
        (psyche.current_action.kind = "SleepAction" /\ Running(psyche.current_action))


\* C40: a non-empty plan is never replaced by another plan: while a plan is
\* active, a step changes its step queue only by popping the first step or
\* by clearing it, also when a worker and the heartbeat generate plans at
\* the same time.
C40_PlanNeverReplaced ==
    [][psyche.action_plan # <<>>
           => psyche'.action_plan \in {psyche.action_plan, Tail(psyche.action_plan), <<>>}]_vars

(***************************************************************************)
(* SpecHands: the handlers that pick things up, put them down or consume   *)
(* them, run by the heartbeat thread (autonomy, plan steps) and by a       *)
(* consultation worker (the action its reply names).  Here psyche holds    *)
(* body_schema['hands_free'], somatic.possessions and the items still in   *)
(* the inventories of the world's objects; threads holds, for each thread, *)
(* the handler whose tests it has passed and whose writes it has not made  *)
(* yet.  The heartbeat takes no lock, so the two threads interleave.       *)
(***************************************************************************)
HandThreads == {"heartbeat", "worker"}

\* the items lying in inventories at the start
Takeable == {"apple", "umbrella"}

HandOps ==
    {[name |-> n, item |-> "phone"] : n \in {"pick_up_phone", "put_down_phone"}}
    \cup {[name |-> n, item |-> it] : n \in {"take", "eat"}, it \in Takeable}

NoHandler == [name |-> "none", item |-> "none"]

\* _load_state's default body_schema and SomaticState.__init__
NewBody == [hands_free |-> 2, possessions |-> <<>>, inventory |-> Takeable]

Holds(m, item) == \E k \in 1..Len(m.possessions) : m.possessions[k] = item

\* list.remove(item): the first occurrence goes
list_remove(seq, item) ==
    LET k == CHOOSE n \in 1..Len(seq) :
                 seq[n] = item /\ \A j \in 1..(n - 1) : seq[j] # item
    IN SubSeq(seq, 1, k - 1) \o SubSeq(seq, k + 1, Len(seq))

\* ConsciousMind._require_free_hands
require_free_hands(m, hands_needed) == m.hands_free >= hands_needed

\* the tests a handler makes before it writes: _pick_up_phone,
\* _put_down_phone, InteractObjectAction.start ("take"), _eat
hand_tests(m, op) ==
    CASE op.name = "pick_up_phone" -> ~Holds(m, "phone") /\ require_free_hands(m, 1)
      [] op.name = "put_down_phone" -> Holds(m, "phone")
      [] op.name = "take" -> op.item \in m.inventory /\ require_free_hands(m, 1)
      [] op.name = "eat" -> Holds(m, op.item) /\ require_free_hands(m, 1)
      [] OTHER -> FALSE

\* the writes of the handler once its tests passed; list.remove of an item
\* that is gone raises ValueError and the handler writes nothing more
hand_writes(m, op) ==
    CASE op.name = "pick_up_phone" ->
            [m EXCEPT !.possessions = Append(@, "phone"), !.hands_free = @ - 1]
      [] op.name = "put_down_phone" ->
            IF Holds(m, "phone")
            THEN [m EXCEPT !.possessions = list_remove(@, "phone"), !.hands_free = @ + 1]
            ELSE m
      [] op.name = "take" ->
            IF op.item \in m.inventory
            THEN [m EXCEPT !.inventory = @ \ {op.item},
                           !.possessions = Append(@, op.item),
                           !.hands_free = @ - 1]
            ELSE m
      [] op.name = "eat" ->
            IF Holds(m, op.item)
            THEN [m EXCEPT !.possessions = list_remove(@, op.item), !.hands_free = @ + 1]
            ELSE m
      [] OTHER -> m

RestHands == <<grid, objects, current_location_coords, gen_edges,
               state_lock, oracle_calls>>

\* a thread enters a handler and makes its tests
HandsTest ==
    \E t \in HandThreads, op \in HandOps :
        /\ threads[t] = NoHandler
        /\ threads' = [threads EXCEPT ![t] = IF hand_tests(psyche, op) THEN op ELSE @]
        /\ last_call' = Call(op.name, t, psyche, "none", StatusOf(hand_tests(psyche, op)))
        /\ UNCHANGED <<psyche, RestHands>>

\* the thread makes the handler's writes
HandsWrite ==
    \E t \in HandThreads :
        /\ threads[t] # NoHandler
        /\ psyche' = hand_writes(psyche, threads[t])
        /\ threads' = [threads EXCEPT ![t] = NoHandler]
        /\ last_call' = Call(threads[t].name, t, psyche, "none", "written")
        /\ UNCHANGED RestHands

InitHands ==
    /\ psyche = NewBody
    /\ last_call = NoCall
    /\ WorldInit
    /\ threads = [t \in HandThreads |-> NoHandler]
    /\ state_lock = NoThread
    /\ oracle_calls = {}

NextHands == HandsTest \/ HandsWrite

SpecHands == InitHands /\ [][NextHands]_vars

\* C38: starting from two free hands and no possessions, hands_free stays
\* within [0,2] and hands_free plus the number of held possessions is 2 in
\* every reachable state.
C38_HandsAccountedFor ==
    /\ psyche.hands_free \in 0..2
    /\ psyche.hands_free + Len(psyche.possessions) = 2

====
